---- MODULE Spec2Model ----
(***************************************************************************)
(* Kinship analyser of src/src/App.jsx: graph indexes, ancestor search,    *)
(* common-ancestor resolution, the relationship classifier, and the phrase *)
(* parser.                                                                 *)
(*                                                                         *)
(* The source's Russian string literals are written in Latin               *)
(* transliteration, one literal per literal:                               *)
(*   otec/mat/roditel = father/mother/parent, ded/babushka/predok =        *)
(*   grandfather/grandmother/ancestor, syn/doch/rebyonok = son/daughter/   *)
(*   child, vnuk/vnuchka/potomok = grandson/granddaughter/descendant,      *)
(*   brat/sestra/sibling = brother/sister/sibling, dyadya/tyotya =         *)
(*   uncle/aunt, plemyannik/plemyannica = nephew/niece, dvoyurodn... =     *)
(*   cousin-degree prefixes, "po materinskoj linii"/"po otcovskoj linii" = *)
(*   maternal/paternal line, "Svyaz ne najdena" = relation not found,      *)
(*   "--" = the dash placeholder, udalenie = removal.                      *)
(***************************************************************************)
EXTENDS Integers, Sequences, FiniteSets, TLC

VARIABLES
  people,           \* Person[]: sequence of [id, name, sex] (and note where given)
  rels,             \* ParentEdge[]: sequence of [parentId, childId]
  fromSel, toSel,   \* the two persons being compared ("" = none)
  analysis,         \* relationLabel(fromSel, toSel, people, rels) or Null
  reverseAnalysis,  \* relationLabel(toSel, fromSel, people, rels) or Null
  _id,              \* the counter behind genId
  text,             \* QuickParser's text, as its lexemes
  parsed,           \* what parseAdvancedKinship did in the last handleParse, or Null
  alerted,          \* the message of the alert raised by the last handler ("" = none)
  parentSel, childSel,  \* the two selects of the parent -> child form ("" = none)
  exported,         \* the file exportJSON wrote last, or Null
  imported,         \* the file the last handler, if importJSON, was given, else Null
  handled,          \* the number of handler calls so far
  walk              \* the graph search in progress: its frame, or Idle

vars == <<people, rels, fromSel, toSel, analysis, reverseAnalysis, _id, text, parsed, alerted,
          parentSel, childSel, exported, imported, handled, walk>>

Null == [null |-> TRUE]

\* no graph search has been called
Idle == [op |-> "idle"]

Sex == {"male", "female", "unknown"}

(***************************************************************************)
(* Tests on strings.                                                       *)
(***************************************************************************)
EndsWith(t, suffix) ==
  Len(t) >= Len(suffix) /\ SubSeq(t, Len(t) - Len(suffix) + 1, Len(t)) = suffix

StartsWith(t, prefix) == Len(t) >= Len(prefix) /\ SubSeq(t, 1, Len(prefix)) = prefix

Contains(t, part) ==
  \E i \in 1..(Len(t) - Len(part) + 1) : SubSeq(t, i, i + Len(part) - 1) = part

(***************************************************************************)
(* Bounds of the model.                                                    *)
(***************************************************************************)
MaxPeople == 4      \* persons of the exhaustively drawn pedigrees
MaxDepth == 4       \* longest chain to a single common ancestor
MaxTie == 3         \* longest chain when there are two common ancestors
MaxFillers == 1      \* most filler chunks between the two relatives of a drawn text
MaxHandled == 6     \* handler calls of an explored session

\* one more handler call of the session
Handled == handled < MaxHandled /\ handled' = handled + 1

(***************************************************************************)
(* JavaScript objects keyed by strings.  An object is the sequence of its  *)
(* [key, val] entries in insertion order.  Object.keys lists the integer   *)
(* keys first, in ascending numeric order, then the other keys in          *)
(* insertion order.                                                        *)
(***************************************************************************)
Has(obj, k) == \E i \in 1..Len(obj) : obj[i].key = k

Get(obj, k) == obj[CHOOSE i \in 1..Len(obj) : obj[i].key = k].val

Put(obj, k, v) ==
  IF Has(obj, k)
  THEN [i \in 1..Len(obj) |-> IF obj[i].key = k THEN [key |-> k, val |-> v] ELSE obj[i]]
  ELSE Append(obj, [key |-> k, val |-> v])

\* the integer keys are the canonical decimal strings (no sign, no leading
\* zero) below 2^32 - 1; every string of at most nine digits is below it, and
\* no id of the model is longer
DigitValue ==
  "0" :> 0 @@ "1" :> 1 @@ "2" :> 2 @@ "3" :> 3 @@ "4" :> 4 @@ "5" :> 5 @@ "6" :> 6
    @@ "7" :> 7 @@ "8" :> 8 @@ "9" :> 9

Digits == DOMAIN DigitValue

IsArrayIndex(k) ==
  /\ Len(k) \in 1..9
  /\ \A i \in 1..Len(k) : SubSeq(k, i, i) \in Digits
  /\ Len(k) = 1 \/ SubSeq(k, 1, 1) # "0"

RECURSIVE IndexOf(_)
IndexOf(k) ==
  IF Len(k) = 1 THEN DigitValue[k]
  ELSE 10 * IndexOf(SubSeq(k, 1, Len(k) - 1)) + DigitValue[SubSeq(k, Len(k), Len(k))]

RECURSIVE InsertByIndex(_, _)
InsertByIndex(sorted, k) ==
  IF sorted = <<>> THEN <<k>>
  ELSE IF IndexOf(k) < IndexOf(Head(sorted)) THEN <<k>> \o sorted
  ELSE <<Head(sorted)>> \o InsertByIndex(Tail(sorted), k)

RECURSIVE SortByIndex(_)
SortByIndex(ks) ==
  IF ks = <<>> THEN <<>> ELSE InsertByIndex(SortByIndex(Tail(ks)), Head(ks))

InsertionKeys(obj) == [i \in 1..Len(obj) |-> obj[i].key]

ObjectKeys(obj) ==
  SortByIndex(SelectSeq(InsertionKeys(obj), IsArrayIndex))
    \o SelectSeq(InsertionKeys(obj), LAMBDA k : ~IsArrayIndex(k))

\* const genId = () => String(_id++)
genId(counter) == ToString(counter)

sexNoun(sex, male, female, neutral) ==
  IF sex = "female" THEN female ELSE IF sex = "male" THEN male ELSE neutral

\* one degree word for every degree
cousinDegreeWordFlat(n) == IF n <= 0 THEN "" ELSE "dvoyurodn"

\* a degree word taken one degree too far
cousinDegreeWordNext(n) ==
  IF n <= 0 THEN "dvoyurodn"
  ELSE CASE n = 1 -> "troyurodn"
         [] n = 2 -> "chetveroyurodn"
         [] n = 3 -> "pyatoyurodn"
         [] OTHER -> ToString(n + 1) \o "-yurodn"

cousinDegreeWord(n) ==
  IF n <= 0 THEN ""
  ELSE CASE n = 1 -> "dvoyurodn"
         [] n = 2 -> "troyurodn"
         [] n = 3 -> "chetveroyurodn"
         [] n = 4 -> "pyatoyurodn"
         [] OTHER -> ToString(n) \o "-yurodn"

(***************************************************************************)
(* buildIndexes: byId and parentsOf as objects.  Every person gets an      *)
(* empty parent list; each edge appends its parentId to the list of its    *)
(* childId, creating the list when the child is no person.                 *)
(***************************************************************************)
RECURSIVE IndexPeople(_, _)
IndexPeople(ps, byId) ==
  IF ps = <<>> THEN byId
  ELSE IndexPeople(Tail(ps), Put(byId, Head(ps).id, Head(ps)))

RECURSIVE EmptyLists(_, _)
EmptyLists(ps, obj) ==
  IF ps = <<>> THEN obj
  ELSE EmptyLists(Tail(ps), Put(obj, Head(ps).id, <<>>))

RECURSIVE PushParents(_, _)
PushParents(es, parentsOf) ==
  IF es = <<>> THEN parentsOf
  ELSE LET e == Head(es)
           old == IF Has(parentsOf, e.childId) THEN Get(parentsOf, e.childId) ELSE <<>>
       IN PushParents(Tail(es), Put(parentsOf, e.childId, Append(old, e.parentId)))

buildIndexes(P, E) ==
  [byId |-> IndexPeople(P, <<>>),
   parentsOf |-> PushParents(E, EmptyLists(P, <<>>))]

\* parentsOf[cur] || []
ParentsOrEmpty(parentsOf, cur) ==
  IF Has(parentsOf, cur) THEN Get(parentsOf, cur) ELSE <<>>

(***************************************************************************)
(* getAncestors: breadth-first search up the parent lists.  The result is  *)
(* the object depths: ancestor id -> number of parent hops.                *)
(***************************************************************************)
\* a search that records a depth on every visit, without the visited check
RECURSIVE ScanParentsNoSeen(_, _, _)
ScanParentsNoSeen(ps, d, st) ==
  IF ps = <<>> THEN st
  ELSE LET p == Head(ps) IN
       ScanParentsNoSeen(Tail(ps), d,
         [depths |-> Put(st.depths, p, d + 1),
          seen |-> st.seen \cup {p},
          queue |-> IF p \in st.seen THEN st.queue
                    ELSE Append(st.queue, [id |-> p, d |-> d + 1])])

RECURSIVE ScanParents(_, _, _)
ScanParents(ps, d, st) ==
  IF ps = <<>> THEN st
  ELSE LET p == Head(ps) IN
       IF p \notin st.seen
       THEN ScanParents(Tail(ps), d,
              [depths |-> Put(st.depths, p,
                              IF Has(st.depths, p) /\ Get(st.depths, p) < d + 1
                              THEN Get(st.depths, p) ELSE d + 1),
               seen |-> st.seen \cup {p},
               queue |-> Append(st.queue, [id |-> p, d |-> d + 1])])
       ELSE ScanParents(Tail(ps), d, st)

\* queue.shift(), then the loop over the parents of the id taken
AncestorStep(st, parentsOf) ==
  LET cur == Head(st.queue)
  IN ScanParents(ParentsOrEmpty(parentsOf, cur.id), cur.d, [st EXCEPT !.queue = Tail(st.queue)])

RECURSIVE AncestorLoop(_, _)
AncestorLoop(st, parentsOf) ==
  IF st.queue = <<>> THEN st.depths
  ELSE AncestorLoop(AncestorStep(st, parentsOf), parentsOf)

\* a search that starts with nothing marked as seen
getAncestorsEntryUnseen(id) ==
  [depths |-> <<>>, seen |-> {}, queue |-> <<[id |-> id, d |-> 0]>>]

\* depths, queue and seen as the loop is entered
getAncestorsEntry(id) ==
  [depths |-> <<>>, seen |-> {id}, queue |-> <<[id |-> id, d |-> 0]>>]

getAncestors(id, parentsOf) == AncestorLoop(getAncestorsEntry(id), parentsOf)

(***************************************************************************)
(* findLCA: scan Object.keys(A); keep the first common ancestor and        *)
(* replace it only by one with a smaller distance sum, or the same sum and *)
(* a smaller maximum.                                                      *)
(***************************************************************************)
Max(x, y) == IF x > y THEN x ELSE y

Min(x, y) == IF x < y THEN x ELSE y

\* a comparison with the sums the wrong way round
BetterLargerSum(dA, dB, best) ==
  dA + dB > best.dA + best.dB
    \/ (dA + dB = best.dA + best.dB /\ (IF dA > dB THEN dA ELSE dB)
          < (IF best.dA > best.dB THEN best.dA ELSE best.dB))

\* a comparison that forgets the tie-break on the larger distance
BetterSumOnly(dA, dB, best) == dA + dB < best.dA + best.dB

Better(dA, dB, best) ==
  LET curScore == dA + dB
      bestScore == best.dA + best.dB
  IN curScore < bestScore
       \/ (curScore = bestScore /\ Max(dA, dB) < Max(best.dA, best.dB))

RECURSIVE ScanCommon(_, _, _, _)
ScanCommon(ks, A, B, best) ==
  IF ks = <<>> THEN best
  ELSE LET id == Head(ks) IN
       IF Has(B, id)
       THEN LET dA == Get(A, id)
                dB == Get(B, id)
            IN IF best = Null
               THEN ScanCommon(Tail(ks), A, B, [id |-> id, dA |-> dA, dB |-> dB])
               ELSE IF Better(dA, dB, best)
                    THEN ScanCommon(Tail(ks), A, B, [id |-> id, dA |-> dA, dB |-> dB])
                    ELSE ScanCommon(Tail(ks), A, B, best)
       ELSE ScanCommon(Tail(ks), A, B, best)

findLCA(a, b, parentsOf) ==
  LET A == getAncestors(a, parentsOf)
      B == getAncestors(b, parentsOf)
  IN ScanCommon(ObjectKeys(A), A, B, Null)

\* a test that counts a person as their own parent
isAncestorOfReflexive(a, b, parentsOf) ==
  LET ancestors == getAncestors(b, parentsOf)
  IN IF a = b THEN 1 ELSE IF Has(ancestors, a) THEN Get(ancestors, a) ELSE -1

\* a is an ancestor of b: its depth, else -1
isAncestorOf(a, b, parentsOf) ==
  LET ancestors == getAncestors(b, parentsOf)
  IN IF Has(ancestors, a) THEN Get(ancestors, a) ELSE -1

(***************************************************************************)
(* pathToAncestor: layer-by-layer search with back pointers; returns the   *)
(* first path found, [fromId, ..., ancestorId], or [fromId].               *)
(***************************************************************************)
RECURSIVE RebuildPath(_, _, _)
RebuildPath(u, fromId, prev) ==
  IF u = fromId THEN <<>>
  ELSE IF Has(prev, u) THEN Append(RebuildPath(Get(prev, u), fromId, prev), u)
  ELSE <<u>>

RECURSIVE ScanUp(_, _, _)
ScanUp(ps, v, st) ==
  IF ps = <<>> THEN st
  ELSE LET p == Head(ps) IN
       IF p \notin st.seen
       THEN ScanUp(Tail(ps), v,
              [seen |-> st.seen \cup {p},
               prev |-> Put(st.prev, p, v),
               next |-> Append(st.next, p)])
       ELSE ScanUp(Tail(ps), v, st)

RECURSIVE WalkLayer(_, _, _, _, _)
WalkLayer(layer, st, fromId, ancestorId, parentsOf) ==
  IF layer = <<>> THEN [found |-> FALSE, st |-> st]
  ELSE LET v == Head(layer) IN
       IF v = ancestorId
       THEN [found |-> TRUE, st |-> st,
             path |-> <<fromId>> \o RebuildPath(v, fromId, st.prev)]
       ELSE WalkLayer(Tail(layer), ScanUp(ParentsOrEmpty(parentsOf, v), v, st),
                      fromId, ancestorId, parentsOf)

RECURSIVE PathLoop(_, _, _, _, _)
PathLoop(currentLayer, st, fromId, ancestorId, parentsOf) ==
  IF currentLayer = <<>> THEN <<fromId>>
  ELSE LET r == WalkLayer(currentLayer, [st EXCEPT !.next = <<>>],
                          fromId, ancestorId, parentsOf)
       IN IF r.found THEN r.path
          ELSE PathLoop(r.st.next, r.st, fromId, ancestorId, parentsOf)

pathToAncestor(fromId, ancestorId, parentsOf) ==
  PathLoop(<<fromId>>, [seen |-> {fromId}, prev |-> <<>>, next |-> <<>>],
           fromId, ancestorId, parentsOf)

\* a line read off the first node of the path, the descendant itself
describeLineOfStart(byId, path) ==
  IF Len(path) < 2 THEN ""
  ELSE IF ~Has(byId, path[1]) THEN ""
  ELSE LET firstParent == Get(byId, path[1])
       IN IF firstParent.sex = "female" THEN "po materinskoj linii"
          ELSE IF firstParent.sex = "male" THEN "po otcovskoj linii"
          ELSE ""

describeLine(byId, path) ==
  IF Len(path) < 2 THEN ""
  ELSE IF ~Has(byId, path[2]) THEN ""
  ELSE LET firstParent == Get(byId, path[2])
       IN IF firstParent.sex = "female" THEN "po materinskoj linii"
          ELSE IF firstParent.sex = "male" THEN "po otcovskoj linii"
          ELSE ""

(***************************************************************************)
(* relationLabel                                                           *)
(***************************************************************************)
\* ancestor terms without the great-grandparent case
describeAncestorNoGreat(d, sex) ==
  IF d = 1 THEN sexNoun(sex, "otec", "mat", "roditel")
  ELSE IF d = 2 THEN sexNoun(sex, "ded", "babushka", "predok")
  ELSE "predok v " \o ToString(d) \o "-m kolene"

describeAncestor(d, sex) ==
  IF d = 1 THEN sexNoun(sex, "otec", "mat", "roditel")
  ELSE IF d = 2 THEN sexNoun(sex, "ded", "babushka", "predok")
  ELSE IF d = 3 THEN sexNoun(sex, "praded", "prababushka", "predok v 3-m kolene")
  ELSE "predok v " \o ToString(d) \o "-m kolene"

describeDescendant(d, sex) ==
  IF d = 1 THEN sexNoun(sex, "syn", "doch", "rebyonok")
  ELSE IF d = 2 THEN sexNoun(sex, "vnuk", "vnuchka", "potomok")
  ELSE IF d = 3 THEN sexNoun(sex, "pravnuk", "pravnuchka", "potomok v 3-m kolene")
  ELSE "potomok v " \o ToString(d) \o "-m kolene"

\* line ? `${t} (${line})` : t
WithLine(t, line) == IF line # "" THEN t \o " (" \o line \o ")" ELSE t

\* byId[id]?.name inside Array.join: a missing person joins as ""
RECURSIVE JoinNames(_, _)
JoinNames(byId, path) ==
  IF path = <<>> THEN ""
  ELSE LET n == IF Has(byId, Head(path)) THEN Get(byId, Head(path)).name ELSE ""
       IN IF Len(path) = 1 THEN n ELSE n \o " -> " \o JoinNames(byId, Tail(path))

\* `Obshchij predok: ${byId[anc]?.name}`
CommonAncestorNote(byId, anc) ==
  "Obshchij predok: " \o (IF Has(byId, anc) THEN Get(byId, anc).name ELSE "undefined")

\* a not-found result with the dash as its second role
NotFoundOneSided == [title |-> "Svyaz ne najdena", details |-> <<>>, reverseTitle |-> "--"]

NotFound == [title |-> "Svyaz ne najdena", details |-> <<>>, reverseTitle |-> "Svyaz ne najdena"]

Missing == [title |-> "--", details |-> <<>>, reverseTitle |-> "--"]

SiblingLabel(A, B, byId, parentsOf, fromId, toId, anc) ==
  LET pathA == pathToAncestor(fromId, anc, parentsOf)
      pathB == pathToAncestor(toId, anc, parentsOf)
      lineA == describeLine(byId, pathA)
      lineB == describeLine(byId, pathB)
  IN [title |-> sexNoun(B.sex, "brat", "sestra", "sibling"),
      details |-> << CommonAncestorNote(byId, anc),
                     "Linii: " \o (IF lineA # "" THEN lineA ELSE "--") \o " / "
                               \o (IF lineB # "" THEN lineB ELSE "--") >>,
      reverseTitle |-> sexNoun(A.sex, "brat", "sestra", "sibling")]

SeniorTerm(degree, sex) ==
  IF degree = 2 THEN sexNoun(sex, "dvoyurodnyj ded", "dvoyurodnaya babushka", "dvoyurodnyj predok")
  ELSE IF degree = 3 THEN sexNoun(sex, "troyurodnyj ded", "troyurodnaya babushka", "troyurodnyj predok")
  ELSE "predok (udalenie " \o ToString(degree - 1) \o ")"

\* the junior side named as the senior side is
JuniorTermAsSenior(degree, sex) == SeniorTerm(degree, sex)

JuniorTerm(degree, sex) ==
  IF degree = 2 THEN sexNoun(sex, "dvoyurodnyj vnuk", "dvoyurodnaya vnuchka", "dvoyurodnyj potomok")
  ELSE IF degree = 3 THEN sexNoun(sex, "troyurodnyj vnuk", "troyurodnaya vnuchka", "troyurodnyj potomok")
  ELSE "potomok (udalenie " \o ToString(degree - 1) \o ")"

AuntUncleLabel(A, B, byId, anc, k, l) ==
  LET olderIsA == k = 1
      degree == Max(k, l) - 1
      det == << CommonAncestorNote(byId, anc) >>
  IN IF degree = 1
     THEN IF olderIsA
          THEN [title |-> sexNoun(A.sex, "dyadya", "tyotya", "tyotya/dyadya"),
                details |-> det,
                reverseTitle |-> sexNoun(B.sex, "plemyannik", "plemyannica", "plemyannik/plemyannica")]
          ELSE [title |-> sexNoun(A.sex, "plemyannik", "plemyannica", "plemyannik/plemyannica"),
                details |-> det,
                reverseTitle |-> sexNoun(B.sex, "dyadya", "tyotya", "tyotya/dyadya")]
     ELSE IF olderIsA
          THEN [title |-> SeniorTerm(degree, A.sex), details |-> det,
                reverseTitle |-> JuniorTerm(degree, B.sex)]
          ELSE [title |-> JuniorTerm(degree, A.sex), details |-> det,
                reverseTitle |-> SeniorTerm(degree, B.sex)]

\* people.find((p) => p.id === anc)?.name
FindName(P, anc) ==
  IF \E i \in 1..Len(P) : P[i].id = anc
  THEN P[CHOOSE i \in 1..Len(P) : P[i].id = anc /\ \A j \in 1..(i - 1) : P[j].id # anc].name
  ELSE "undefined"

CousinLabel(A, B, P, anc, k, l) ==
  LET degree == Min(k, l) - 1
      removal == IF k > l THEN k - l ELSE l - k
      base == cousinDegreeWord(degree)
      det == << "Obshchij predok: " \o FindName(P, anc) >>
      olderIsA == k < l
  IN IF removal = 0
     THEN [title |-> IF base # ""
                     THEN sexNoun(B.sex, base \o "yj brat", base \o "aya sestra",
                                  base \o "ye rodstvenniki")
                     ELSE "rodstvenniki",
           details |-> det,
           reverseTitle |-> IF base # ""
                            THEN sexNoun(A.sex, base \o "yj brat", base \o "aya sestra",
                                         base \o "ye rodstvenniki")
                            ELSE "rodstvenniki"]
     ELSE IF removal = 1
     THEN LET labelOlder == base \o "yj "
                 \o sexNoun(IF olderIsA THEN A.sex ELSE B.sex, "dyadya", "tyotya", "dyadya/tyotya")
              labelYounger == base \o "aya "
                 \o sexNoun(IF olderIsA THEN B.sex ELSE A.sex,
                            "plemyannik", "plemyannica", "plemyannik/plemyannica")
          IN IF olderIsA
             THEN [title |-> labelOlder, details |-> det, reverseTitle |-> labelYounger]
             ELSE [title |-> labelYounger, details |-> det, reverseTitle |-> labelOlder]
     ELSE LET rem == " (udalenie " \o ToString(removal) \o ")"
              uncle(sex) == base \o "yj " \o sexNoun(sex, "dyadya", "tyotya", "dyadya/tyotya") \o rem
              niece(sex) == base \o "aya "
                 \o sexNoun(sex, "plemyannik", "plemyannica", "plemyannik/plemyannica") \o rem
          IN [title |-> IF olderIsA THEN uncle(A.sex) ELSE niece(A.sex),
              details |-> det,
              reverseTitle |-> IF olderIsA THEN niece(B.sex) ELSE uncle(B.sex)]

relationLabel(fromId, toId, P, E) ==
  LET idx == buildIndexes(P, E)
      byId == idx.byId
      parentsOf == idx.parentsOf
  IN IF ~Has(byId, fromId) \/ ~Has(byId, toId) THEN Missing
     ELSE
     LET A == Get(byId, fromId)
         B == Get(byId, toId)
         up == isAncestorOf(fromId, toId, parentsOf)
         down == isAncestorOf(toId, fromId, parentsOf)
     IN IF up >= 1
        THEN LET path == pathToAncestor(toId, fromId, parentsOf)
                 line == describeLine(byId, path)
             IN [title |-> WithLine(describeAncestor(up, A.sex), line),
                 details |-> << "Obshchij put: " \o JoinNames(byId, path) >>,
                 reverseTitle |-> WithLine(describeDescendant(up, B.sex), line)]
        ELSE IF down >= 1
        THEN LET path == pathToAncestor(fromId, toId, parentsOf)
                 line == describeLine(byId, path)
             IN [title |-> WithLine(describeDescendant(down, A.sex), line),
                 details |-> << "Obshchij put: " \o JoinNames(byId, path) >>,
                 reverseTitle |-> WithLine(describeAncestor(down, B.sex), line)]
        ELSE LET lca == findLCA(fromId, toId, parentsOf)
             IN IF lca = Null THEN NotFound
                ELSE IF lca.dA = 1 /\ lca.dB = 1
                THEN SiblingLabel(A, B, byId, parentsOf, fromId, toId, lca.id)
                ELSE IF Min(lca.dA, lca.dB) = 1
                THEN AuntUncleLabel(A, B, byId, lca.id, lca.dA, lca.dB)
                ELSE CousinLabel(A, B, P, lca.id, lca.dA, lca.dB)

(***************************************************************************)
(* buildDemo: the graph of the phrase "ego mat -- mladshaya sestra eyo     *)
(* deda po materinskoj linii"; ids come from genId with _id reset to 1.    *)
(***************************************************************************)
\* note "" stands for a note that was not given
DemoPerson(n, name, sex, note) ==
  [id |-> genId(n), name |-> name, sex |-> sex, note |-> note]

DemoLink(parent, child) == [parentId |-> parent.id, childId |-> child.id]

buildDemo ==
  LET she == DemoPerson(1, "Ona", "female", "")
      herMother == DemoPerson(2, "Eyo mat", "female", "")
      herMGF == DemoPerson(3, "Eyo ded (po materinskoj linii)", "male", "")
      herMGM == DemoPerson(4, "Eyo babushka (po materinskoj linii)", "female", "")
      hisMother == DemoPerson(5, "Ego mat", "female", "mladshaya sestra eyo deda")
      he == DemoPerson(6, "On", "male", "")
      commonGF == DemoPerson(7, "Obshchij praded", "male", "")
      commonGM == DemoPerson(8, "Obshchaya prababushka", "female", "")
  IN [people |-> <<she, herMother, herMGF, herMGM, hisMother, he, commonGF, commonGM>>,
      rels |-> << DemoLink(herMother, she), DemoLink(herMGF, herMother),
                  DemoLink(herMGM, herMother), DemoLink(hisMother, he),
                  DemoLink(commonGF, herMGF), DemoLink(commonGM, herMGF),
                  DemoLink(commonGF, hisMother), DemoLink(commonGM, hisMother) >>]

(***************************************************************************)
(* The phrase parser.  A text is the sequence of its chunks, the pieces    *)
(* between white space.  Tokens, like labels, are transliterated: ego/ee   *)
(* (eyo with the letter yo) = his/her, mat/mama, otec/papa = mother,       *)
(* father, ded.../bab... = grandfather, grandmother, "po materinskoj       *)
(* linii"/"po otcovskoj linii" = the line clause, sestra/brat = sister,    *)
(* brother, mladshaya/starshaya/mladshij/starshij = younger/elder,         *)
(* eto/est/yavlyaetsya/yavl = fillers.  "-" is any dash or hyphen.         *)
(***************************************************************************)
UpperCase ==
  [A |-> "a", B |-> "b", C |-> "c", D |-> "d", E |-> "e", F |-> "f", G |-> "g",
   H |-> "h", I |-> "i", J |-> "j", K |-> "k", L |-> "l", M |-> "m", N |-> "n",
   O |-> "o", P |-> "p", Q |-> "q", R |-> "r", S |-> "s", T |-> "t", U |-> "u",
   V |-> "v", W |-> "w", X |-> "x", Y |-> "y", Z |-> "z"]

LowerCase == { UpperCase[c] : c \in DOMAIN UpperCase }

RECURSIVE toLowerCase(_)
toLowerCase(w) ==
  IF w = "" THEN ""
  ELSE LET c == SubSeq(w, 1, 1)
       IN (IF c \in DOMAIN UpperCase THEN UpperCase[c] ELSE c)
            \o toLowerCase(SubSeq(w, 2, Len(w)))

\* .replace(/yo/g, "e"), yo being one letter of the source alphabet
RECURSIVE ReplaceYo(_)
ReplaceYo(w) ==
  IF Len(w) < 2 THEN w
  ELSE IF SubSeq(w, 1, 2) = "yo" THEN "e" \o ReplaceYo(SubSeq(w, 3, Len(w)))
  ELSE SubSeq(w, 1, 1) \o ReplaceYo(SubSeq(w, 2, Len(w)))

\* dashes, hyphens and every character that is no letter or digit -> " "
RECURSIVE ReplacePunctuation(_)
ReplacePunctuation(w) ==
  IF w = "" THEN ""
  ELSE LET c == SubSeq(w, 1, 1)
       IN (IF c \in LowerCase \cup Digits THEN c ELSE " ")
            \o ReplacePunctuation(SubSeq(w, 2, Len(w)))

\* .split(" ").filter(Boolean)
RECURSIVE SplitWords(_, _)
SplitWords(w, word) ==
  IF w = "" THEN (IF word = "" THEN <<>> ELSE <<word>>)
  ELSE IF SubSeq(w, 1, 1) = " "
       THEN (IF word = "" THEN <<>> ELSE <<word>>) \o SplitWords(SubSeq(w, 2, Len(w)), "")
       ELSE SplitWords(SubSeq(w, 2, Len(w)), word \o SubSeq(w, 1, 1))

NormalizeChunk(w) == SplitWords(ReplacePunctuation(ReplaceYo(toLowerCase(w))), "")

\* the chunks the drawn texts are made of, normalised once
Lexicon ==
  { "Ego", "Eyo", "ego", "eyo", "ee", "mat", "otec", "deda", "babushki", "tyotya",
    "po", "materinskoj", "otcovskoj", "linii", "--", "-", "eto", "mladshaya",
    "sestra", "brat" }

NormalChunk == [w \in Lexicon |-> NormalizeChunk(w)]

\* the words of the normalised text; the normalised text itself is these
\* words joined by single spaces
RECURSIVE normalizeText(_)
normalizeText(s) ==
  IF s = <<>> THEN <<>>
  ELSE (IF Head(s) \in Lexicon THEN NormalChunk[Head(s)] ELSE NormalizeChunk(Head(s)))
         \o normalizeText(Tail(s))

PRONOUN == { "ego", "ee", "eyo" }

FILLERS == { "eto", "est", "yavlyaetsya", "yavl" }

SIBLING_WORDS == { "sestra", "brat" }

RANK_WORDS == { "mladshaya", "starshaya", "mladshij", "starshij" }

motherWords == { "mat", "mama" }

fatherWords == { "otec", "papa" }

isGrandfatherWord(w) == StartsWith(w, "ded") \/ StartsWith(w, "dedushk")

isGrandmotherWord(w) == StartsWith(w, "bab")

\* tokens[i] === w, tokens[i] being undefined past the end (i counts from 1)
IsWord(toks, i, w) == i \in 1..Len(toks) /\ toks[i] = w

\* throw new Error(message)
Throw(message) == [thrown |-> TRUE, error |-> message]

\* a clause that stops after the side word, without "linii"
takeLineNoLinii(toks, i) ==
  IF IsWord(toks, i, "po")
       /\ (IsWord(toks, i + 1, "materinskoj") \/ IsWord(toks, i + 1, "otcovskoj"))
  THEN [side |-> IF IsWord(toks, i + 1, "materinskoj") THEN "maternal" ELSE "paternal",
        next |-> i + 3]
  ELSE [side |-> "", next |-> i]

\* side "" is the source's null
takeLine(toks, i) ==
  IF IsWord(toks, i, "po")
       /\ (IsWord(toks, i + 1, "materinskoj") \/ IsWord(toks, i + 1, "otcovskoj"))
       /\ IsWord(toks, i + 2, "linii")
  THEN [side |-> IF IsWord(toks, i + 1, "materinskoj") THEN "maternal" ELSE "paternal",
        next |-> i + 3]
  ELSE [side |-> "", next |-> i]

ExpectedPronoun == "Ozhidali <<ego/ee>>"

ExpectedTerm == "Ozhidali termin rodstva posle <<ego/ee>>"

ExpectedLine ==
  "Utochnite liniyu: <<po materinskoj linii>> ili <<po otcovskoj linii>> dlya <<ded/babushka>>"

UnknownTerm(w) == "Neizvestnyj termin rodstva: " \o w

ExpectedSibling == "Ozhidali <<sestra/brat>>"

EmptyString == "Pustaya stroka"

Possessive(base) == IF base = "he" THEN "Ego " ELSE "Eyo "

LineText(side) == IF side = "maternal" THEN "po materinskoj linii" ELSE "po otcovskoj linii"

RelativeSpec(base, steps, terminalLabel, terminalSex, next) ==
  [thrown |-> FALSE, base |-> base, steps |-> steps, terminalLabel |-> terminalLabel,
   terminalSex |-> terminalSex, note |-> "", next |-> next]

GrandSpec(toks, i, base) ==
  LET gf == isGrandfatherWord(toks[i])
      line == takeLine(toks, i + 1)
  IN IF line.side = "" THEN Throw(ExpectedLine)
     ELSE RelativeSpec(base,
            IF line.side = "maternal"
            THEN <<"mother", IF gf THEN "father" ELSE "mother">>
            ELSE <<"father", IF gf THEN "father" ELSE "mother">>,
            Possessive(base) \o (IF gf THEN "ded" ELSE "babushka")
              \o " (" \o LineText(line.side) \o ")",
            IF gf THEN "male" ELSE "female",
            line.next)

parseRelativeSpec(toks, i0) ==
  IF ~(i0 \in 1..Len(toks) /\ toks[i0] \in PRONOUN) THEN Throw(ExpectedPronoun)
  ELSE LET base == IF toks[i0] = "ego" THEN "he" ELSE "she"
           i == i0 + 1
       IN IF i > Len(toks) THEN Throw(ExpectedTerm)
          ELSE IF toks[i] \in motherWords
               THEN RelativeSpec(base, <<"mother">>, Possessive(base) \o "mat", "female", i + 1)
          ELSE IF toks[i] \in fatherWords
               THEN RelativeSpec(base, <<"father">>, Possessive(base) \o "otec", "male", i + 1)
          ELSE IF isGrandfatherWord(toks[i]) \/ isGrandmotherWord(toks[i])
               THEN GrandSpec(toks, i, base)
          ELSE Throw(UnknownTerm(toks[i]))

RECURSIVE SkipFillers(_, _)
SkipFillers(toks, i) ==
  IF i <= Len(toks) /\ (toks[i] \in FILLERS \/ toks[i] = "--" \/ toks[i] = "-")
  THEN SkipFillers(toks, i + 1)
  ELSE i

\* rank "" is the source's null
parseSiblingConnector(toks, i0) ==
  LET i1 == SkipFillers(toks, i0)
      ranked == i1 <= Len(toks) /\ toks[i1] \in RANK_WORDS
      i2 == IF ranked THEN i1 + 1 ELSE i1
  IN IF i2 > Len(toks) \/ toks[i2] \notin SIBLING_WORDS THEN Throw(ExpectedSibling)
     ELSE [thrown |-> FALSE, kind |-> toks[i2],
           rank |-> IF ranked THEN toks[i1] ELSE "", next |-> i2 + 1]

labelForPath(base, path) ==
  IF Len(path) = 1 /\ path[1] = "mother"
  THEN [label |-> Possessive(base) \o "mat", sex |-> "female"]
  ELSE IF Len(path) = 1 /\ path[1] = "father"
  THEN [label |-> Possessive(base) \o "otec", sex |-> "male"]
  ELSE IF Len(path) = 2
  THEN [label |-> Possessive(base) \o (IF path[2] = "father" THEN "ded" ELSE "babushka")
                    \o " (" \o (IF path[1] = "mother" THEN "po materinskoj linii"
                                ELSE "po otcovskoj linii") \o ")",
        sex |-> IF path[2] = "father" THEN "male" ELSE "female"]
  ELSE [label |-> Possessive(base) \o "predok v " \o ToString(Len(path)) \o "-m kolene",
        sex |-> "unknown"]

(***************************************************************************)
(* buildGraphFromSibling.  A graph under construction is [people, rels,    *)
(* counter]; add and ensureChain give back the graph and the node's id.    *)
(* byKey holds one entry per name, so a name is looked up in people.       *)
(***************************************************************************)
\* an add that never looks the name up
SynthAddAlways(g, name, sex) ==
  [g |-> [g EXCEPT !.people = Append(@, [id |-> genId(g.counter), name |-> name,
                                          sex |-> sex, note |-> ""]),
                  !.counter = @ + 1],
   node |-> genId(g.counter)]

SynthAdd(g, name, sex) ==
  IF \E i \in 1..Len(g.people) : g.people[i].name = name
  THEN [g |-> g,
        node |-> g.people[CHOOSE i \in 1..Len(g.people) : g.people[i].name = name].id]
  ELSE [g |-> [g EXCEPT !.people = Append(@, [id |-> genId(g.counter), name |-> name,
                                                sex |-> sex, note |-> ""]),
                        !.counter = @ + 1],
        node |-> genId(g.counter)]

\* a test that finds no edge
HasEdgeNever(arr, parent, child) == FALSE

\* arr.some((r) => r.parentId === parent && r.childId === child)
HasEdge(arr, parent, child) ==
  \E i \in 1..Len(arr) : arr[i].parentId = parent /\ arr[i].childId = child

SynthLink(g, parent, child) ==
  IF HasEdge(g.rels, parent, child)
  THEN g
  ELSE [g EXCEPT !.rels = Append(@, [parentId |-> parent, childId |-> child])]

RECURSIVE GrowChain(_, _, _, _, _)
GrowChain(g, base, steps, d, child) ==
  IF d > Len(steps) THEN [g |-> g, node |-> child]
  ELSE LET l == labelForPath(base, SubSeq(steps, 1, d))
           added == SynthAdd(g, l.label, l.sex)
       IN GrowChain(SynthLink(added.g, added.node, child), base, steps, d + 1, added.node)

\* a chain that stops at the root's parent
ensureChainOneStep(g, base, steps) ==
  LET root == SynthAdd(g, IF base = "he" THEN "On" ELSE "Ona",
                       IF base = "he" THEN "male" ELSE "female")
  IN GrowChain(root.g, base, SubSeq(steps, 1, 1), 1, root.node)

ensureChain(g, base, steps) ==
  LET root == SynthAdd(g, IF base = "he" THEN "On" ELSE "Ona",
                       IF base = "he" THEN "male" ELSE "female")
  IN GrowChain(root.g, base, steps, 1, root.node)

\* leftNode.note = leftNode.note ? leftNode.note + "; " + rank : rank
SetNote(g, node, rank) ==
  IF rank = "" THEN g
  ELSE [g EXCEPT !.people =
          [i \in 1..Len(g.people) |->
             IF g.people[i].id = node
             THEN [g.people[i] EXCEPT !.note = IF @ = "" THEN rank ELSE @ \o "; " \o rank]
             ELSE g.people[i]]]

buildGraphFromSibling(leftSpec, connector, rightSpec, counter) ==
  LET left == ensureChain([people |-> <<>>, rels |-> <<>>, counter |-> counter],
                          leftSpec.base, leftSpec.steps)
      right == ensureChain(SetNote(left.g, left.node, connector.rank),
                           rightSpec.base, rightSpec.steps)
      commonGF == SynthAdd(right.g, "Obshchij praded", "male")
      commonGM == SynthAdd(commonGF.g, "Obshchaya prababushka", "female")
      g1 == SynthLink(commonGM.g, commonGF.node, left.node)
      g2 == SynthLink(g1, commonGF.node, right.node)
      g3 == SynthLink(g2, commonGM.node, left.node)
      g4 == SynthLink(g3, commonGM.node, right.node)
  IN [thrown |-> FALSE, people |-> g4.people, rels |-> g4.rels, counter |-> g4.counter]

\* an exception leaving parseAdvancedKinship, with the value _id has by then
Aborted(failure, counter) ==
  [thrown |-> TRUE, error |-> failure.error, counter |-> counter]

\* a parser that grows each chain as soon as its relative is read
parseAdvancedKinshipEager(inputText, counter) ==
  LET toks == normalizeText(inputText)
  IN IF toks = <<>> THEN Aborted(Throw(EmptyString), counter)
     ELSE LET left == parseRelativeSpec(toks, 1)
          IN IF left.thrown THEN Aborted(left, counter)
             ELSE LET grown == ensureChain([people |-> <<>>, rels |-> <<>>,
                                            counter |-> counter],
                                           left.base, left.steps)
                      conn == parseSiblingConnector(toks, left.next)
                  IN IF conn.thrown THEN Aborted(conn, grown.g.counter)
                     ELSE LET right == parseRelativeSpec(toks, conn.next)
                          IN IF right.thrown THEN Aborted(right, grown.g.counter)
                             ELSE buildGraphFromSibling(left, conn, right, counter)

\* counter is the value of _id at the call; the result carries its value after
parseAdvancedKinship(inputText, counter) ==
  LET toks == normalizeText(inputText)
  IN IF toks = <<>> THEN Aborted(Throw(EmptyString), counter)
     ELSE LET left == parseRelativeSpec(toks, 1)
          IN IF left.thrown THEN Aborted(left, counter)
             ELSE LET conn == parseSiblingConnector(toks, left.next)
                  IN IF conn.thrown THEN Aborted(conn, counter)
                     ELSE LET right == parseRelativeSpec(toks, conn.next)
                          IN IF right.thrown THEN Aborted(right, counter)
                             ELSE buildGraphFromSibling(left, conn, right, counter)

\* applyParsed stands at module level, where setPeople, setRels, setFromSel
\* and setToSel (locals of GenealogyApp) are not in scope: its first
\* statement raises a ReferenceError
applyParsed(res) == Throw("setPeople is not defined")

canonical ==
  <<"ego", "mat", "mladshaya", "sestra", "ee", "deda", "po", "materinskoj", "linii">>

AlertText(message) == "Ne udalos razobrat frazu: " \o message

\* loadDemo: the demo graph, He and She preselected, the counter past its ids
loadDemo ==
  [people |-> buildDemo.people, rels |-> buildDemo.rels,
   fromSel |-> buildDemo.people[CHOOSE i \in 1..Len(buildDemo.people) :
                                  buildDemo.people[i].name = "On"].id,
   toSel |-> buildDemo.people[CHOOSE i \in 1..Len(buildDemo.people) :
                                buildDemo.people[i].name = "Ona"].id,
   counter |-> Len(buildDemo.people) + 1]

(***************************************************************************)
(* Inputs of the classifier.  Ids are the decimal strings genId hands out, *)
(* ascending or descending along the person list, or non-numeric strings   *)
(* as an imported file may carry.  A variant fixes the id style, the sexes *)
(* (cycling male, female, unknown along the person list from a shift) and  *)
(* whether the edge list is taken backwards.                               *)
(***************************************************************************)
Variants ==
  { [style |-> "asc", shift |-> 0, backwards |-> FALSE],
    [style |-> "desc", shift |-> 1, backwards |-> TRUE],
    [style |-> "name", shift |-> 2, backwards |-> FALSE] }

SexCycle == <<"male", "female", "unknown">>

PersonId(v, i, n) ==
  IF v.style = "asc" THEN genId(i)
  ELSE IF v.style = "desc" THEN genId(n + 1 - i)
  ELSE "p" \o ToString(i)

InputPerson(v, i, n) ==
  [id |-> PersonId(v, i, n),
   name |-> "P" \o PersonId(v, i, n),
   sex |-> SexCycle[((i + v.shift) % 3) + 1]]

Reverse(s) == [i \in 1..Len(s) |-> s[Len(s) + 1 - i]]

\* edges, as pairs of person indexes <<parent, child>>, made into a graph
InputGraph(v, n, pairs) ==
  LET es == [i \in 1..Len(pairs) |->
               [parentId |-> PersonId(v, pairs[i][1], n),
                childId |-> PersonId(v, pairs[i][2], n)]]
  IN [people |-> [i \in 1..n |-> InputPerson(v, i, n)],
      rels |-> IF v.backwards THEN Reverse(es) ELSE es]

(* Every acyclic graph on MaxPeople persons in which parents come after    *)
(* their children in the person list.                                      *)
RECURSIVE SetToSeq(_)
SetToSeq(S) ==
  IF S = {} THEN <<>>
  ELSE LET m == CHOOSE x \in S : \A y \in S : x <= y
       IN <<m>> \o SetToSeq(S \ {m})

RECURSIVE ShapesFrom(_)
ShapesFrom(i) ==
  IF i > MaxPeople THEN { <<>> }
  ELSE { [j \in 1..Len(ps) |-> <<ps[j], i>>] \o rest :
           ps \in { SetToSeq(S) : S \in SUBSET ((i + 1)..MaxPeople) },
           rest \in ShapesFrom(i + 1) }

Pedigrees == { InputGraph(v, MaxPeople, shape) : v \in Variants, shape \in ShapesFrom(1) }

(* Two persons (1 and 2) and two possible common ancestors (3 and 4): a    *)
(* chain of kX hops from person 1 to 3, lX hops from 2 to 3, kY hops from  *)
(* 1 to 4 and lY hops from 2 to 4; a length of 0 is no chain.              *)
Chain(from, top, len, firstFree) ==
  IF len = 0 THEN <<>>
  ELSE LET path == <<from>> \o [j \in 1..(len - 1) |-> firstFree + j - 1] \o <<top>>
       IN [j \in 1..len |-> <<path[j + 1], path[j]>>]

Interior(len) == IF len = 0 THEN 0 ELSE len - 1

Lineage(v, kX, lX, kY, lY) ==
  LET n == 4 + Interior(kX) + Interior(lX) + Interior(kY) + Interior(lY)
  IN InputGraph(v, n,
       Chain(1, 3, kX, 5)
         \o Chain(2, 3, lX, 5 + Interior(kX))
         \o Chain(1, 4, kY, 5 + Interior(kX) + Interior(lX))
         \o Chain(2, 4, lY, 5 + Interior(kX) + Interior(lX) + Interior(kY)))

Lineages ==
  { Lineage(v, k, l, 0, 0) : v \in Variants, k \in 1..MaxDepth, l \in 0..MaxDepth }
    \cup { Lineage(v, q[1], q[2], q[3], q[4]) :
             v \in Variants, q \in (1..MaxTie) \X (1..MaxTie) \X (1..MaxTie) \X (1..MaxTie) }

(* A sibling of an ancestor one generation beyond MaxDepth, and the same    *)
(* pair the other way round.                                               *)
DeepLineages ==
  { Lineage(v, q[1], q[2], 0, 0) :
      v \in Variants, q \in { <<1, MaxDepth + 1>>, <<MaxDepth + 1, 1>> } }

(* The graphs of the two other self-tests: _id is set to 1000 and 2000.     *)
\* the values runSelfTests gives the counter before its second and third test
SiblingsTestId == 1000

MotherTestId == 2000

TestPerson(n, name, sex) == [id |-> genId(n), name |-> name, sex |-> sex]

SiblingsTest ==
  LET father == TestPerson(SiblingsTestId, "Otec", "male")
      mother == TestPerson(SiblingsTestId + 1, "Mat", "female")
      son == TestPerson(SiblingsTestId + 2, "Syn", "male")
      daughter == TestPerson(SiblingsTestId + 3, "Doch", "female")
  IN [people |-> <<father, mother, son, daughter>>,
      rels |-> << [parentId |-> father.id, childId |-> son.id],
                  [parentId |-> mother.id, childId |-> son.id],
                  [parentId |-> father.id, childId |-> daughter.id],
                  [parentId |-> mother.id, childId |-> daughter.id] >>]

MotherTest ==
  LET mom == TestPerson(MotherTestId, "Mama", "female")
      child == TestPerson(MotherTestId + 1, "Rebyonok", "male")
  IN [people |-> <<mom, child>>,
      rels |-> << [parentId |-> mom.id, childId |-> child.id] >>]

\* the counter once runSelfTests has run at mount: its last test sets it and
\* adds its persons
AfterMount == MotherTestId + Len(MotherTest.people)

Inputs == Pedigrees \cup Lineages \cup DeepLineages \cup { buildDemo, SiblingsTest, MotherTest }

Ids(P) == { P[i].id : i \in 1..Len(P) }

(***************************************************************************)
(* The classifier applied to a drawn graph.                                *)
(***************************************************************************)
Init ==
  /\ \E g \in Inputs : people = g.people /\ rels = g.rels
  /\ fromSel = "" /\ toSel = ""
  /\ analysis = Null /\ reverseAnalysis = Null
  /\ _id = AfterMount
  /\ text = <<>> /\ parsed = Null /\ alerted = ""
  /\ parentSel = "" /\ childSel = "" /\ exported = Null /\ imported = Null
  /\ handled = 0
  /\ walk = Idle

\* analysis / reverseAnalysis of the pair chosen in the two selects
Analyse(a, b) ==
  /\ Handled
  /\ UNCHANGED walk
  /\ fromSel = "" /\ toSel = ""
  /\ fromSel' = a /\ toSel' = b
  /\ analysis' = relationLabel(a, b, people, rels)
  /\ reverseAnalysis' = relationLabel(b, a, people, rels)
  /\ UNCHANGED <<people, rels, _id, text, parsed, alerted, parentSel, childSel, exported,
                 imported>>

\* an id that names no person of any input
UnknownIds == { "nobody" }

Next == \E a, b \in Ids(people) \cup UnknownIds : Analyse(a, b)

Spec == Init /\ [][Next]_vars

(* The classifier on relatives through common ancestors: the lineages,     *)
(* whose two persons are at chosen distances from their common ancestors,  *)
(* the pedigrees with non-numeric ids, and the demo graph.                 *)
NamedPedigrees == { g \in Pedigrees : g.people[1].id = "p1" }

KinInputs == Lineages \cup DeepLineages \cup NamedPedigrees \cup { buildDemo }

InitKin ==
  /\ \E g \in KinInputs : people = g.people /\ rels = g.rels
  /\ fromSel = "" /\ toSel = ""
  /\ analysis = Null /\ reverseAnalysis = Null
  /\ _id = AfterMount
  /\ text = <<>> /\ parsed = Null /\ alerted = ""
  /\ parentSel = "" /\ childSel = "" /\ exported = Null /\ imported = Null
  /\ handled = 0
  /\ walk = Idle

NextKin == \E a, b \in Ids(people) : Analyse(a, b)

SpecKin == InitKin /\ [][NextKin]_vars

(* The classifier on a person compared with themselves: the same id in     *)
(* both selects.                                                           *)
NextSelf == \E a \in Ids(people) \cup UnknownIds : Analyse(a, a)

SpecSelf == Init /\ [][NextSelf]_vars

(***************************************************************************)
(* The parser applied to a drawn text: a left relative, fillers, a rank,   *)
(* a sibling word and a right relative, each drawn from a few forms, some  *)
(* of them malformed.                                                      *)
(***************************************************************************)
LeftPronouns == { "Ego", "Eyo" }

RightPronouns == { "ego", "eyo" }

Terms == { "mat", "otec", "deda", "babushki", "tyotya" }

LineClauses ==
  { <<>>, <<"po", "materinskoj", "linii">>, <<"po", "otcovskoj", "linii">>,
    <<"po", "materinskoj">> }

FillerChunks == { "--", "eto" }

RECURSIVE FillerRuns(_)
FillerRuns(n) ==
  IF n = 0 THEN { <<>> }
  ELSE FillerRuns(n - 1)
         \cup { Append(r, f) : r \in { q \in FillerRuns(n - 1) : Len(q) = n - 1 },
                               f \in FillerChunks }

Ranks == { <<>>, <<"mladshaya">> }

Siblings == { <<"sestra">>, <<"brat">>, <<>> }

Relatives(pronouns) ==
  { <<p, t>> \o c : p \in pronouns, t \in Terms, c \in LineClauses }

Sentences ==
  { l \o f \o k \o b \o r :
      l \in Relatives(LeftPronouns), f \in FillerRuns(MaxFillers), k \in Ranks,
      b \in Siblings, r \in Relatives(RightPronouns) }
    \cup { <<>>, <<"--">>, <<"mat">>, <<"Ego">> }

InitParse ==
  /\ people = <<>> /\ rels = <<>>
  /\ fromSel = "" /\ toSel = ""
  /\ analysis = Null /\ reverseAnalysis = Null
  /\ _id = AfterMount
  /\ text \in Sentences
  /\ parsed = Null /\ alerted = ""
  /\ parentSel = "" /\ childSel = "" /\ exported = Null /\ imported = Null
  /\ handled = 0
  /\ walk = Idle

\* what the editor shows once loadDemo has run
Shown(P, E, a, b) ==
  [people |-> P, rels |-> E, fromSel |-> a, toSel |-> b,
   analysis |-> IF a = "" \/ b = "" THEN Null ELSE relationLabel(a, b, P, E),
   reverseAnalysis |-> IF a = "" \/ b = "" THEN Null ELSE relationLabel(b, a, P, E)]

\* the try block of handleParse: the parse, then onApply on its result
TryParse(res) ==
  IF res.thrown THEN res
  ELSE IF Len(res.people) > 0 THEN applyParsed(res)
  ELSE [thrown |-> FALSE]

\* QuickParser.handleParse, with what its caller's onApply and onDemo do
handleParse ==
  /\ Handled
  /\ UNCHANGED walk
  /\ parsed = Null
  /\ \E res \in { parseAdvancedKinship(text, _id) } :
       \E tried \in { TryParse(res) } :
         /\ parsed' = IF res.thrown
                      THEN [ok |-> FALSE, error |-> res.error,
                            people |-> <<>>, rels |-> <<>>]
                      ELSE [ok |-> TRUE, error |-> "",
                            people |-> res.people, rels |-> res.rels]
         /\ IF tried.thrown /\ normalizeText(text) = canonical
            THEN \E demo \in { loadDemo } :
                   \E shown \in { Shown(demo.people, demo.rels,
                                           demo.fromSel, demo.toSel) } :
                     /\ people' = shown.people
                     /\ rels' = shown.rels
                     /\ fromSel' = shown.fromSel
                     /\ toSel' = shown.toSel
                     /\ analysis' = shown.analysis
                     /\ reverseAnalysis' = shown.reverseAnalysis
                     /\ _id' = demo.counter
                     /\ alerted' = ""
            ELSE /\ _id' = res.counter
                 /\ alerted' = IF tried.thrown THEN AlertText(tried.error) ELSE ""
                 /\ UNCHANGED <<people, rels, fromSel, toSel, analysis, reverseAnalysis>>
  /\ imported' = Null
  /\ UNCHANGED <<text, parentSel, childSel, exported>>

NextParse == handleParse

SpecParse == InitParse /\ [][NextParse]_vars

(***************************************************************************)
(* The editor: the handlers of GenealogyApp on the person list, the edge   *)
(* list, the parent -> child form, the export and import of files and the  *)
(* phrase box, from the state after mount.  analysis and reverseAnalysis   *)
(* are recomputed whenever what they depend on changes.                    *)
(***************************************************************************)
MaxNewIds == 1      \* ids handed out by addPerson after mount and after each demo load

\* String.prototype.trim, on the blanks a typed name may carry
RECURSIVE trimStart(_)
trimStart(s) ==
  IF s # "" /\ SubSeq(s, 1, 1) = " " THEN trimStart(SubSeq(s, 2, Len(s))) ELSE s

RECURSIVE trimEnd(_)
trimEnd(s) ==
  IF s # "" /\ SubSeq(s, Len(s), Len(s)) = " " THEN trimEnd(SubSeq(s, 1, Len(s) - 1)) ELSE s

trim(s) == trimEnd(trimStart(s))

(* JSON documents.  A file holds a JSON document or a text JSON.parse      *)
(* rejects.  JSON.stringify writes an object as its members in property    *)
(* order and leaves out a property whose value is undefined.               *)
JString(s) == [type |-> "string", string |-> s]

JArray(items) == [type |-> "array", items |-> items]

JObject(members) == [type |-> "object", members |-> members]

JNull == [type |-> "null"]

Undefined == [type |-> "undefined"]

NotJSON == [type |-> "text"]

Member(key, val) == [key |-> key, val |-> val]

\* a person written without its note
StringifyPersonNoNote(p) ==
  JObject(<< Member("id", JString(p.id)), Member("name", JString(p.name)),
             Member("sex", JString(p.sex)) >>)

\* a person's note is "" where the property is undefined or absent
StringifyPerson(p) ==
  JObject(<< Member("id", JString(p.id)), Member("name", JString(p.name)),
             Member("sex", JString(p.sex)) >>
            \o (IF p.note # "" THEN << Member("note", JString(p.note)) >> ELSE <<>>))

StringifyEdge(e) ==
  JObject(<< Member("parentId", JString(e.parentId)), Member("childId", JString(e.childId)) >>)

\* JSON.stringify({ people, relations: rels }, null, 2)
JSONstringify(P, E) ==
  JObject(<< Member("people", JArray([i \in 1..Len(P) |-> StringifyPerson(P[i])])),
             Member("relations", JArray([i \in 1..Len(E) |-> StringifyEdge(E[i])])) >>)

\* JSON.parse(reader.result)
JSONparse(file) ==
  IF file = NotJSON THEN Throw("Unexpected token") ELSE [thrown |-> FALSE, value |-> file]

\* data[key]: undefined on a missing property and on a value that is no object
Property(data, key) ==
  IF data.type = "object" /\ Has(data.members, key) THEN Get(data.members, key) ELSE Undefined

isArray(v) == v.type = "array"

\* the persons and edges a parsed document's lists hold, as the editor keeps them
RevivePerson(o) ==
  [id |-> Property(o, "id").string, name |-> Property(o, "name").string,
   sex |-> Property(o, "sex").string,
   note |-> IF Has(o.members, "note") THEN Property(o, "note").string ELSE ""]

ReviveEdge(o) ==
  [parentId |-> Property(o, "parentId").string, childId |-> Property(o, "childId").string]

RevivePeople(list) == [i \in 1..Len(list.items) |-> RevivePerson(list.items[i])]

ReviveEdges(list) == [i \in 1..Len(list.items) |-> ReviveEdge(list.items[i])]

ReadError(message) == "Ne udalos prochitat JSON: " \o message

NotAnExport == "Fajl ne pohozh na eksport etogo prilozheniya."

\* reader.onload of importJSON: what it sets, or the alert it raises
ImportOutcome(file) ==
  LET parsedFile == JSONparse(file)
  IN IF parsedFile.thrown THEN [replaced |-> FALSE, alert |-> ReadError(parsedFile.error)]
     ELSE LET data == parsedFile.value
          IN IF data.type = "null"
             THEN [replaced |-> FALSE,
                   alert |-> ReadError("Cannot read properties of null")]
             ELSE IF isArray(Property(data, "people")) /\ isArray(Property(data, "relations"))
             THEN [replaced |-> TRUE, alert |-> "",
                   people |-> RevivePeople(Property(data, "people")),
                   rels |-> ReviveEdges(Property(data, "relations"))]
             ELSE IF isArray(Property(data, "people")) /\ isArray(Property(data, "rels"))
             THEN [replaced |-> TRUE, alert |-> "",
                   people |-> RevivePeople(Property(data, "people")),
                   rels |-> ReviveEdges(Property(data, "rels"))]
             ELSE [replaced |-> FALSE, alert |-> NotAnExport]

(* The files offered to importJSON besides the one exportJSON wrote: a     *)
(* two-person graph with its edges under "relations" or under "rels", and  *)
(* documents that lack a list.  Their ids are not of the kind genId hands  *)
(* out.                                                                    *)
FilePeople ==
  JArray(<< StringifyPerson([id |-> "p1", name |-> "Anna", sex |-> "female", note |-> ""]),
            StringifyPerson([id |-> "p2", name |-> "Boris", sex |-> "male",
                             note |-> "starshij"]) >>)

FileEdges == JArray(<< StringifyEdge([parentId |-> "p1", childId |-> "p2"]) >>)

WellFormedFiles ==
  { JObject(<< Member("people", FilePeople), Member("relations", FileEdges) >>),
    JObject(<< Member("people", FilePeople), Member("relations", JString("none")),
               Member("rels", FileEdges) >>) }

MalformedFiles ==
  { NotJSON, JNull,
    JObject(<< Member("people", FilePeople) >>),
    JObject(<< Member("relations", FileEdges) >>),
    JObject(<< Member("people", JString("Anna")), Member("relations", FileEdges) >>),
    JObject(<< Member("people", FilePeople),
               Member("relations", JObject(<< Member("p1", JString("p2")) >>)) >>) }

Files == WellFormedFiles \cup MalformedFiles \cup (IF exported = Null THEN {} ELSE { exported })

\* the names and sexes typed into the person form
NewPersons == { <<" Vera ", "female">>, <<"  ", "male">> }

\* the entries picked in a select or in the person list: the first and the last
Picked(P) == { P[i].id : i \in { 1, Len(P) } \cap (1..Len(P)) }

\* the phrases typed into the phrase box
Phrases ==
  { <<"Ego", "mat", "--", "mladshaya", "sestra", "eyo", "deda", "po", "materinskoj", "linii">>,
    <<"Eyo", "otec", "brat", "eyo", "otec">> }

InitEdit ==
  /\ people = <<>> /\ rels = <<>>
  /\ fromSel = "" /\ toSel = ""
  /\ analysis = Null /\ reverseAnalysis = Null
  /\ _id = AfterMount
  /\ text = <<>> /\ parsed = Null /\ alerted = ""
  /\ parentSel = "" /\ childSel = "" /\ exported = Null /\ imported = Null
  /\ handled = 0
  /\ walk = Idle

\* genId is called only while the counter is within MaxNewIds of where mount
\* or the demo left it
CounterInRange ==
  \/ _id \in loadDemo.counter..(loadDemo.counter + MaxNewIds - 1)
  \/ _id \in AfterMount..(AfterMount + MaxNewIds - 1)

\* people, rels and the compared pair become P, E, a, b; the memos follow
Becomes(P, E, a, b) ==
  /\ people' = P /\ rels' = E
  /\ fromSel' = a /\ toSel' = b
  /\ \E shown \in { Shown(P, E, a, b) } :
       analysis' = shown.analysis /\ reverseAnalysis' = shown.reverseAnalysis

addPerson(newName, newSex) ==
  /\ Handled
  /\ UNCHANGED walk
  /\ CounterInRange
  /\ alerted' = "" /\ imported' = Null
  /\ IF trim(newName) = ""
     THEN UNCHANGED <<people, rels, fromSel, toSel, analysis, reverseAnalysis, _id>>
     ELSE /\ Becomes(Append(people, [id |-> genId(_id), name |-> trim(newName),
                                     sex |-> newSex, note |-> ""]),
                     rels, fromSel, toSel)
          /\ _id' = _id + 1
  /\ UNCHANGED <<text, parsed, parentSel, childSel, exported>>

setParentSel(value) ==
  /\ Handled
  /\ UNCHANGED walk
  /\ parentSel' = value
  /\ alerted' = "" /\ imported' = Null
  /\ UNCHANGED <<people, rels, fromSel, toSel, analysis, reverseAnalysis, _id, text, parsed,
                 childSel, exported>>

setChildSel(value) ==
  /\ Handled
  /\ UNCHANGED walk
  /\ childSel' = value
  /\ alerted' = "" /\ imported' = Null
  /\ UNCHANGED <<people, rels, fromSel, toSel, analysis, reverseAnalysis, _id, text, parsed,
                 parentSel, exported>>

addParentChild ==
  /\ Handled
  /\ UNCHANGED walk
  /\ alerted' = "" /\ imported' = Null
  /\ IF parentSel = "" \/ childSel = "" \/ parentSel = childSel
     THEN UNCHANGED <<people, rels, fromSel, toSel, analysis, reverseAnalysis>>
     ELSE IF HasEdge(rels, parentSel, childSel)
     THEN UNCHANGED <<people, rels, fromSel, toSel, analysis, reverseAnalysis>>
     ELSE Becomes(people, Append(rels, [parentId |-> parentSel, childId |-> childSel]),
                  fromSel, toSel)
  /\ UNCHANGED <<_id, text, parsed, parentSel, childSel, exported>>

removePerson(id) ==
  /\ Handled
  /\ UNCHANGED walk
  /\ Becomes(SelectSeq(people, LAMBDA q : q.id # id),
             SelectSeq(rels, LAMBDA r : r.parentId # id /\ r.childId # id),
             IF fromSel = id THEN "" ELSE fromSel,
             IF toSel = id THEN "" ELSE toSel)
  /\ parentSel' = IF parentSel = id THEN "" ELSE parentSel
  /\ childSel' = IF childSel = id THEN "" ELSE childSel
  /\ alerted' = "" /\ imported' = Null
  /\ UNCHANGED <<_id, text, parsed, exported>>

\* the demo button: loadDemo
clickLoadDemo ==
  /\ Handled
  /\ UNCHANGED walk
  /\ \E demo \in { loadDemo } :
       /\ Becomes(demo.people, demo.rels, demo.fromSel, demo.toSel)
       /\ _id' = demo.counter
  /\ alerted' = "" /\ imported' = Null
  /\ UNCHANGED <<text, parsed, parentSel, childSel, exported>>

exportJSON ==
  /\ Handled
  /\ UNCHANGED walk
  /\ exported' = JSONstringify(people, rels)
  /\ alerted' = "" /\ imported' = Null
  /\ UNCHANGED <<people, rels, fromSel, toSel, analysis, reverseAnalysis, _id, text, parsed,
                 parentSel, childSel>>

importJSON(file) ==
  /\ Handled
  /\ UNCHANGED walk
  /\ imported' = file
  /\ \E outcome \in { ImportOutcome(file) } :
       /\ alerted' = outcome.alert
       /\ IF outcome.replaced
          THEN Becomes(outcome.people, outcome.rels, fromSel, toSel)
          ELSE UNCHANGED <<people, rels, fromSel, toSel, analysis, reverseAnalysis>>
  /\ UNCHANGED <<_id, text, parsed, parentSel, childSel, exported>>

\* the phrase box's onChange; parsed is about the text now in the box
setText(value) ==
  /\ Handled
  /\ UNCHANGED walk
  /\ text' = value
  /\ parsed' = Null
  /\ alerted' = "" /\ imported' = Null
  /\ UNCHANGED <<people, rels, fromSel, toSel, analysis, reverseAnalysis, _id,
                 parentSel, childSel, exported>>

NextEdit ==
  \/ \E form \in NewPersons : addPerson(form[1], form[2])
  \/ \E value \in ({""} \cup Picked(people)) \ {parentSel} : setParentSel(value)
  \/ \E value \in ({""} \cup Picked(people)) \ {childSel} : setChildSel(value)
  \/ addParentChild
  \/ \E id \in Picked(people) : removePerson(id)
  \/ clickLoadDemo
  \/ exportJSON
  \/ \E file \in Files : importJSON(file)
  \/ \E value \in Phrases \ {text} : setText(value)
  \/ CounterInRange /\ handleParse

SpecEdit == InitEdit /\ [][NextEdit]_vars

(***************************************************************************)
(* The graph searches, one loop iteration at a time.  A call of            *)
(* getAncestors, pathToAncestor, findLCA or relationLabel is a frame: the  *)
(* function and its arguments, the results of the searches it has made so  *)
(* far, and the search in progress; byId and parentsOf are the indexes of  *)
(* the drawn graph, which relationLabel builds and hands to the others.    *)
(* JavaScript runs a call to completion, so a step that can be taken is    *)
(* taken.                                                                  *)
(***************************************************************************)
MaxRing == 3        \* persons of the longest drawn ring of parents

RingPerson(i) ==
  [id |-> genId(i), name |-> "P" \o ToString(i),
   sex |-> IF i % 3 = 1 THEN "male" ELSE IF i % 3 = 2 THEN "female" ELSE "unknown"]

(* Persons 1..n, each the parent of the next and the last the parent of    *)
(* the first (n = 1 is a person who is their own parent); kids children of *)
(* person 1 below the ring; the first edge of the ring once more at the    *)
(* end when twice.                                                         *)
Ring(n, kids, twice) ==
  LET edge(i, j) == [parentId |-> genId(i), childId |-> genId(j)]
  IN [people |-> [i \in 1..(n + kids) |-> RingPerson(i)],
      rels |-> [i \in 1..n |-> edge(i, (i % n) + 1)]
                 \o [j \in 1..kids |-> edge(1, n + j)]
                 \o (IF twice THEN <<edge(1, (1 % n) + 1)>> ELSE <<>>)]

Rings == { Ring(n, kids, twice) : n \in 1..MaxRing, kids \in 0..2, twice \in BOOLEAN }

WalkInputs == Rings \cup { SiblingsTest, MotherTest }

Searches == { "getAncestors", "pathToAncestor", "findLCA", "relationLabel" }

nonWalk == <<people, rels, fromSel, toSel, analysis, reverseAnalysis, _id, text, parsed,
             alerted, parentSel, childSel, exported, imported, handled>>

InitWalk ==
  /\ \E g \in WalkInputs : people = g.people /\ rels = g.rels
  /\ fromSel = "" /\ toSel = ""
  /\ analysis = Null /\ reverseAnalysis = Null
  /\ _id = AfterMount
  /\ text = <<>> /\ parsed = Null /\ alerted = ""
  /\ parentSel = "" /\ childSel = "" /\ exported = Null /\ imported = Null
  /\ handled = 0
  /\ walk = [op |-> "idle", indexes |-> buildIndexes(people, rels)]

\* what a frame does next
CallGetAncestors(id) == [do |-> "getAncestors", id |-> id]

CallPathToAncestor(fromId, ancestorId) ==
  [do |-> "pathToAncestor", fromId |-> fromId, ancestorId |-> ancestorId]

\* findLCA's loop over Object.keys(A)
Scan == [do |-> "scan"]

Return == [do |-> "return"]

\* a in ancestors ? ancestors[a] : -1
DepthIn(ancestors, a) == IF Has(ancestors, a) THEN Get(ancestors, a) ELSE -1

(* relationLabel up to its last search: both isAncestorOf calls, then the  *)
(* path of a direct line, or findLCA's two searches and, for siblings, the *)
(* two paths to the common parent.                                         *)
relationLabelResume(fromId, toId, results, scanned, lca, byId) ==
  LET n == Len(results)
      up == DepthIn(results[1], fromId)
      down == DepthIn(results[2], toId)
  IN IF ~Has(byId, fromId) \/ ~Has(byId, toId) THEN Return
     ELSE IF n = 0 THEN CallGetAncestors(toId)
     ELSE IF n = 1 THEN CallGetAncestors(fromId)
     ELSE IF up >= 1 THEN (IF n = 2 THEN CallPathToAncestor(toId, fromId) ELSE Return)
     ELSE IF down >= 1 THEN (IF n = 2 THEN CallPathToAncestor(fromId, toId) ELSE Return)
     ELSE IF n = 2 THEN CallGetAncestors(fromId)
     ELSE IF n = 3 THEN CallGetAncestors(toId)
     ELSE IF ~scanned THEN Scan
     ELSE IF lca = Null THEN Return
     ELSE IF lca.dA = 1 /\ lca.dB = 1
          THEN IF n = 4 THEN CallPathToAncestor(fromId, lca.id)
               ELSE IF n = 5 THEN CallPathToAncestor(toId, lca.id)
               ELSE Return
     ELSE Return

\* findLCA: the ancestors of a, the ancestors of b, then the scan
findLCAResume(a, b, results, scanned) ==
  IF Len(results) = 0 THEN CallGetAncestors(a)
  ELSE IF Len(results) = 1 THEN CallGetAncestors(b)
  ELSE IF ~scanned THEN Scan
  ELSE Return

Resume(frame) ==
  IF frame.fn = "relationLabel"
  THEN relationLabelResume(frame.a, frame.b, frame.results, frame.scanned, frame.lca,
                           frame.indexes.byId)
  ELSE IF frame.fn = "findLCA"
  THEN findLCAResume(frame.a, frame.b, frame.results, frame.scanned)
  ELSE IF Len(frame.results) > 0 THEN Return
  ELSE IF frame.fn = "getAncestors" THEN CallGetAncestors(frame.a)
  ELSE CallPathToAncestor(frame.a, frame.b)

\* best, once the keys of A have been gone through: A and B are the last two results
ScanLast(results) ==
  LET A == results[Len(results) - 1]
      B == results[Len(results)]
  IN ScanCommon(ObjectKeys(A), A, B, Null)

\* the ids a loop iteration added to a queue that lost its head
Pushed(old, new) == [i \in 1..(Len(new) - Len(old) + 1) |-> new[Len(old) - 1 + i].id]

\* fn(a, b) is called
call(fn, a, b) ==
  /\ walk.op = "idle"
  /\ walk' = [op |-> "between", indexes |-> walk.indexes, fn |-> fn, a |-> a, b |-> b,
              results |-> <<>>, scanned |-> FALSE, lca |-> Null, sub |-> Null]
  /\ UNCHANGED nonWalk

\* between two searches: the frame starts its next search, scans the common
\* ancestors, or returns
proceed ==
  /\ walk.op = "between"
  /\ \E next \in { Resume(walk) } :
       walk' = IF next.do = "getAncestors"
               THEN [walk EXCEPT !.op = "getAncestors",
                                 !.sub = [id |-> next.id, st |-> getAncestorsEntry(next.id),
                                          enqueued |-> <<next.id>>]]
               ELSE IF next.do = "pathToAncestor"
               THEN [walk EXCEPT !.op = "pathToAncestor",
                                 !.sub = [fromId |-> next.fromId,
                                          ancestorId |-> next.ancestorId,
                                          currentLayer |-> <<next.fromId>>,
                                          st |-> [seen |-> {next.fromId}, prev |-> <<>>,
                                                  next |-> <<>>],
                                          enqueued |-> <<next.fromId>>]]
               ELSE IF next.do = "scan"
               THEN [walk EXCEPT !.scanned = TRUE, !.lca = ScanLast(walk.results)]
               ELSE [walk EXCEPT !.op = "returned"]
  /\ UNCHANGED nonWalk

\* one iteration of getAncestors' while loop
getAncestorsStep ==
  /\ walk.op = "getAncestors"
  /\ walk.sub.st.queue # <<>>
  /\ \E st \in { AncestorStep(walk.sub.st, walk.indexes.parentsOf) } :
       walk' = [walk EXCEPT !.sub.st = st,
                            !.sub.enqueued = @ \o Pushed(walk.sub.st.queue, st.queue)]
  /\ UNCHANGED nonWalk

\* the queue is empty: return depths
getAncestorsReturn ==
  /\ walk.op = "getAncestors"
  /\ walk.sub.st.queue = <<>>
  /\ walk' = [walk EXCEPT !.op = "between", !.results = Append(@, walk.sub.st.depths),
                          !.sub = Null]
  /\ UNCHANGED nonWalk

\* one iteration of pathToAncestor's outer loop: a whole layer
pathToAncestorStep ==
  /\ walk.op = "pathToAncestor"
  /\ walk.sub.currentLayer # <<>>
  /\ \E r \in { WalkLayer(walk.sub.currentLayer, [walk.sub.st EXCEPT !.next = <<>>],
                          walk.sub.fromId, walk.sub.ancestorId,
                          walk.indexes.parentsOf) } :
       walk' = IF r.found
               THEN [walk EXCEPT !.op = "rebuild",
                                 !.sub = [fromId |-> walk.sub.fromId,
                                          u |-> walk.sub.ancestorId, path |-> <<>>,
                                          st |-> r.st]]
               ELSE [walk EXCEPT !.sub.currentLayer = r.st.next, !.sub.st = r.st,
                                 !.sub.enqueued = @ \o r.st.next]
  /\ UNCHANGED nonWalk

\* no layer is left: return [fromId]
pathToAncestorReturn ==
  /\ walk.op = "pathToAncestor"
  /\ walk.sub.currentLayer = <<>>
  /\ walk' = [walk EXCEPT !.op = "between", !.results = Append(@, <<walk.sub.fromId>>),
                          !.sub = Null]
  /\ UNCHANGED nonWalk

\* while (u && u !== fromId): an id without a back pointer gives undefined, here ""
Rebuilding == walk.sub.u # "" /\ walk.sub.u # walk.sub.fromId

\* one iteration of the loop that restores the path
rebuildStep ==
  /\ walk.op = "rebuild"
  /\ Rebuilding
  /\ walk' = [walk EXCEPT !.sub.path = Append(@, walk.sub.u),
                          !.sub.u = IF Has(walk.sub.st.prev, walk.sub.u)
                                    THEN Get(walk.sub.st.prev, walk.sub.u) ELSE ""]
  /\ UNCHANGED nonWalk

\* path.reverse(); return [fromId, ...path]
rebuildReturn ==
  /\ walk.op = "rebuild"
  /\ ~Rebuilding
  /\ walk' = [walk EXCEPT !.op = "between",
                          !.results = Append(@, <<walk.sub.fromId>> \o Reverse(walk.sub.path)),
                          !.sub = Null]
  /\ UNCHANGED nonWalk

NextWalk ==
  \/ \E fn \in Searches : \E a, b \in Ids(people) \cup UnknownIds : call(fn, a, b)
  \/ proceed
  \/ getAncestorsStep
  \/ getAncestorsReturn
  \/ pathToAncestorStep
  \/ pathToAncestorReturn
  \/ rebuildStep
  \/ rebuildReturn

SpecWalk == InitWalk /\ [][NextWalk]_vars /\ WF_vars(NextWalk)

(***************************************************************************)
(* Reference notions, read off the edge list itself.                       *)
(***************************************************************************)
ParentSet(x) == { rels[i].parentId : i \in { j \in 1..Len(rels) : rels[j].childId = x } }

\* the parents of the members of S
Up(S) == { rels[i].parentId : i \in { j \in 1..Len(rels) : rels[j].childId \in S } }

Nodes == Ids(people) \cup { rels[i].parentId : i \in 1..Len(rels) }
           \cup { rels[i].childId : i \in 1..Len(rels) }

\* x is reached from start by exactly d parent hops along some path
RECURSIVE UpN(_, _)
UpN(S, d) == IF d = 0 THEN S ELSE UpN(Up(S), d - 1)

ReachedIn(start, x, d) == x \in UpN({start}, d)

\* everything reached from S by zero or more parent hops
RECURSIVE UpClosure(_)
UpClosure(S) ==
  LET above == Up(S)
  IN IF above \subseteq S THEN S ELSE UpClosure(S \cup above)

AncestorSet(start) == UpClosure(Up({start}))

\* the sets reached from start by exactly 1, 2, ... parent hops
RECURSIVE LevelSets(_, _)
LevelSets(level, d) ==
  IF level = {} \/ d > Cardinality(Nodes) THEN <<>>
  ELSE <<level>> \o LevelSets(Up(level), d + 1)

Levels(start) == LevelSets(Up({start}), 1)

\* the least number of hops in which x is reached, -1 if it never is
LeastLevel(levels, x) ==
  IF \E d \in 1..Len(levels) : x \in levels[d]
  THEN CHOOSE d \in 1..Len(levels) :
         x \in levels[d] /\ \A e \in 1..(d - 1) : x \notin levels[e]
  ELSE -1

MinHops(start, x) == LeastLevel(Levels(start), x)

\* hopping up from S ends within n hops: no walk of n parent edges starts in S
RECURSIVE EndsWithin(_, _)
EndsWithin(S, n) ==
  IF S = {} THEN TRUE
  ELSE IF n = 0 THEN FALSE
  ELSE EndsWithin(Up(S), n - 1)

\* no person is their own ancestor: every upward walk ends
Acyclic == EndsWithin(Nodes, Cardinality(Nodes))

Analysed == fromSel # "" /\ toSel # "" /\ analysis # Null

BothPresent == fromSel \in Ids(people) /\ toSel \in Ids(people)

PersonOf(id) == people[CHOOSE i \in 1..Len(people) : people[i].id = id]

CurrentParents == buildIndexes(people, rels).parentsOf

(***************************************************************************)
(* C8: on an acyclic graph getAncestors(id) has as keys exactly the        *)
(* persons reachable from id by one or more parent hops, each mapped to    *)
(* the least number of hops over all paths (the shorter length where two   *)
(* paths of different length meet in one ancestor).                        *)
(***************************************************************************)
C8_AncestorsOf(id, parentsOf) ==
  LET got == getAncestors(id, parentsOf)
      levels == Levels(id)
  IN /\ { got[i].key : i \in 1..Len(got) } = UNION { levels[d] : d \in 1..Len(levels) }
     /\ \A i \in 1..Len(got) : got[i].val = LeastLevel(levels, got[i].key)

C8_MinimalDepths ==
  (Analysed /\ Acyclic) =>
    LET parentsOf == CurrentParents
    IN /\ fromSel \in Ids(people) => C8_AncestorsOf(fromSel, parentsOf)
       /\ toSel \in Ids(people) => C8_AncestorsOf(toSel, parentsOf)

\* a diamond: some ancestor of the analysed person is reached by two paths
\* of different length, and the shorter one is reported
C8_Witness ==
  /\ Analysed /\ Acyclic /\ fromSel \in Ids(people)
  /\ \E x \in AncestorSet(fromSel) : \E e \in 1..Cardinality(Nodes) :
       /\ MinHops(fromSel, x) < e /\ ReachedIn(fromSel, x, e)
       /\ Get(getAncestors(fromSel, CurrentParents), x) = MinHops(fromSel, x)

(***************************************************************************)
(* C7: findLCA(a, b) is null exactly when a and b have no common ancestor; *)
(* otherwise it is a common ancestor, reported with its two distances,     *)
(* such that no common ancestor has a smaller distance sum, or the same    *)
(* sum and a smaller larger distance.                                      *)
(***************************************************************************)
CommonAncestors(a, b) == AncestorSet(a) \cap AncestorSet(b)

C7_LcaIsNearest ==
  (Analysed /\ BothPresent) =>
    LET lca == findLCA(fromSel, toSel, CurrentParents)
        common == CommonAncestors(fromSel, toSel)
        levelsA == Levels(fromSel)
        levelsB == Levels(toSel)
    IN /\ (lca = Null) <=> (common = {})
       /\ lca # Null =>
            /\ lca.id \in common
            /\ lca.dA = LeastLevel(levelsA, lca.id)
            /\ lca.dB = LeastLevel(levelsB, lca.id)
            /\ \A x \in common :
                 LET dA == LeastLevel(levelsA, x)
                     dB == LeastLevel(levelsB, x)
                 IN /\ dA + dB >= lca.dA + lca.dB
                    /\ dA + dB = lca.dA + lca.dB => Max(dA, dB) >= Max(lca.dA, lca.dB)

\* two common ancestors with equal distance sums and different larger
\* distances; the one with the smaller larger distance is resolved
C7_Witness ==
  /\ Analysed /\ BothPresent
  /\ LET lca == findLCA(fromSel, toSel, CurrentParents)
     IN /\ lca # Null
        /\ \E x \in CommonAncestors(fromSel, toSel) :
             /\ MinHops(fromSel, x) + MinHops(toSel, x) = lca.dA + lca.dB
             /\ Max(MinHops(fromSel, x), MinHops(toSel, x)) > Max(lca.dA, lca.dB)

\* the ancestor sets are disjoint and findLCA is null
C7_WitnessNone ==
  /\ Analysed /\ BothPresent
  /\ CommonAncestors(fromSel, toSel) = {}
  /\ findLCA(fromSel, toSel, CurrentParents) = Null

(***************************************************************************)
(* Line annotations of a role.                                             *)
(***************************************************************************)
MaternalNote == " (po materinskoj linii)"

PaternalNote == " (po otcovskoj linii)"

\* a role without its line annotation
BareTerm(t) ==
  IF EndsWith(t, MaternalNote) THEN SubSeq(t, 1, Len(t) - Len(MaternalNote))
  ELSE IF EndsWith(t, PaternalNote) THEN SubSeq(t, 1, Len(t) - Len(PaternalNote))
  ELSE t

NoDirectLine == fromSel \notin AncestorSet(toSel) /\ toSel \notin AncestorSet(fromSel)

Resolved == findLCA(fromSel, toSel, CurrentParents)

FindByName(name) == people[CHOOSE i \in 1..Len(people) : people[i].name = name].id

(***************************************************************************)
(* C1: reciprocity.  On an acyclic graph, for any two persons A and B, the *)
(* role of A in relationLabel(A, B) is the role of A in relationLabel(B,   *)
(* A), and likewise the role of B, also when several common ancestors tie. *)
(***************************************************************************)
C1_Reciprocal ==
  (Analysed /\ BothPresent /\ Acyclic) =>
    /\ analysis.title = reverseAnalysis.reverseTitle
    /\ analysis.reverseTitle = reverseAnalysis.title

\* the same, for the graphs whose ids are all integer keys (the ids genId makes)
C1_ReciprocalIntegerIds ==
  (Analysed /\ BothPresent /\ Acyclic /\ \A x \in Nodes : IsArrayIndex(x)) =>
    /\ analysis.title = reverseAnalysis.reverseTitle
    /\ analysis.reverseTitle = reverseAnalysis.title

(***************************************************************************)
(* C2: direct line.  On an acyclic graph, when A is an ancestor of B at    *)
(* least distance d >= 1, the role of A is the ancestor term of generation *)
(* d in A's sex (parent, grandparent, great-grandparent, from d = 4 the    *)
(* generic "ancestor in generation d") and the role of B is the descendant *)
(* term of generation d in B's sex, each possibly followed by the line     *)
(* annotation; so every edge P -> A gives a parent term and a child term.  *)
(***************************************************************************)
C2_AncestorTerm(d, sex) ==
  CASE d = 1 -> [male |-> "otec", female |-> "mat", unknown |-> "roditel"][sex]
    [] d = 2 -> [male |-> "ded", female |-> "babushka", unknown |-> "predok"][sex]
    [] d = 3 -> [male |-> "praded", female |-> "prababushka",
                 unknown |-> "predok v 3-m kolene"][sex]
    [] OTHER -> "predok v " \o ToString(d) \o "-m kolene"

C2_DescendantTerm(d, sex) ==
  CASE d = 1 -> [male |-> "syn", female |-> "doch", unknown |-> "rebyonok"][sex]
    [] d = 2 -> [male |-> "vnuk", female |-> "vnuchka", unknown |-> "potomok"][sex]
    [] d = 3 -> [male |-> "pravnuk", female |-> "pravnuchka",
                 unknown |-> "potomok v 3-m kolene"][sex]
    [] OTHER -> "potomok v " \o ToString(d) \o "-m kolene"

C2_DirectLine ==
  (Analysed /\ BothPresent /\ fromSel \in AncestorSet(toSel) /\ Acyclic) =>
    LET d == MinHops(toSel, fromSel)
    IN /\ BareTerm(analysis.title) = C2_AncestorTerm(d, PersonOf(fromSel).sex)
       /\ BareTerm(analysis.reverseTitle) = C2_DescendantTerm(d, PersonOf(toSel).sex)

\* an ancestor four or more generations up has been classified
C2_Witness ==
  /\ Analysed /\ BothPresent /\ Acyclic /\ fromSel \in AncestorSet(toSel)
  /\ MinHops(toSel, fromSel) >= 4
  /\ BareTerm(analysis.title) = "predok v 4-m kolene"

(***************************************************************************)
(* C3: in every branch the first role names what A is to B in A's sex and  *)
(* the second what B is to A in B's sex; in particular for siblings (son   *)
(* and daughter of the same parents give brother, then sister) and for     *)
(* cousins of the same generation.                                         *)
(***************************************************************************)
C3_SiblingTerm(sex) == [male |-> "brat", female |-> "sestra", unknown |-> "sibling"][sex]

C3_CousinTerm(prefix, sex) ==
  [male |-> prefix \o "yj brat", female |-> prefix \o "aya sestra",
   unknown |-> prefix \o "ye rodstvenniki"][sex]

C3_Prefix(degree) ==
  CASE degree = 1 -> "dvoyurodn"
    [] degree = 2 -> "troyurodn"
    [] degree = 3 -> "chetveroyurodn"
    [] degree = 4 -> "pyatoyurodn"
    [] OTHER -> ToString(degree) \o "-yurodn"

C3_RolesFollowOwnSex ==
  (Analysed /\ BothPresent /\ Acyclic /\ NoDirectLine /\ Resolved # Null) =>
    LET k == Resolved.dA
        l == Resolved.dB
        A == PersonOf(fromSel)
        B == PersonOf(toSel)
    IN /\ (k = 1 /\ l = 1) =>
            /\ analysis.title = C3_SiblingTerm(A.sex)
            /\ analysis.reverseTitle = C3_SiblingTerm(B.sex)
       /\ (k = l /\ k >= 2) =>
            /\ analysis.title = C3_CousinTerm(C3_Prefix(k - 1), A.sex)
            /\ analysis.reverseTitle = C3_CousinTerm(C3_Prefix(k - 1), B.sex)

(***************************************************************************)
(* C4: siblings.  Two distinct persons, neither an ancestor of the other,  *)
(* who share a parent resolve to a common ancestor at distances 1 and 1,   *)
(* and both roles are sibling terms (brother, sister, neutral sibling).    *)
(***************************************************************************)
C4_SiblingTerms == { "brat", "sestra", "sibling" }

C4_ShareParent == ParentSet(fromSel) \cap ParentSet(toSel) # {}

C4_Siblings ==
  (Analysed /\ BothPresent /\ fromSel # toSel /\ C4_ShareParent /\ NoDirectLine /\ Acyclic) =>
    /\ Resolved # Null /\ Resolved.dA = 1 /\ Resolved.dB = 1
    /\ analysis.title \in C4_SiblingTerms
    /\ analysis.reverseTitle \in C4_SiblingTerms

\* the self-test: son against daughter of the same two parents
C4_Witness ==
  /\ Analysed /\ people = SiblingsTest.people /\ rels = SiblingsTest.rels
  /\ fromSel = FindByName("Syn") /\ toSel = FindByName("Doch")
  /\ C4_ShareParent /\ NoDirectLine
  /\ analysis.title \in C4_SiblingTerms

(***************************************************************************)
(* C5: cousins once removed.  When the resolved common ancestor is at      *)
(* distances k >= 2 and l >= 2 with |k - l| = 1, the person nearer to it   *)
(* gets the uncle/aunt term and the other the niece/nephew term, both with *)
(* the cousin prefix of degree min(k, l) - 1.  On the demo graph the role  *)
(* of He towards She has the first-cousin prefix and an uncle term, and    *)
(* that of She towards He the same prefix and a niece term.                *)
(***************************************************************************)
C5_Prefix(degree) ==
  CASE degree = 1 -> "dvoyurodn"
    [] degree = 2 -> "troyurodn"
    [] degree = 3 -> "chetveroyurodn"
    [] degree = 4 -> "pyatoyurodn"
    [] OTHER -> ToString(degree) \o "-yurodn"

C5_Uncle(t, prefix) ==
  /\ StartsWith(t, prefix \o "yj ")
  /\ Contains(t, "dyadya") \/ Contains(t, "tyotya")
  /\ ~Contains(t, "plemyann")

C5_Niece(t, prefix) ==
  /\ StartsWith(t, prefix \o "aya ")
  /\ Contains(t, "plemyann")
  /\ ~Contains(t, "dyadya") /\ ~Contains(t, "tyotya")

C5_OnceRemoved ==
  /\ Analysed /\ BothPresent /\ NoDirectLine
  /\ LET lca == Resolved
     IN /\ lca # Null /\ lca.dA >= 2 /\ lca.dB >= 2
        /\ (lca.dA - lca.dB = 1 \/ lca.dB - lca.dA = 1)
  /\ Acyclic

C5_DemoPair ==
  /\ Analysed /\ people = buildDemo.people /\ rels = buildDemo.rels
  /\ fromSel = FindByName("On") /\ toSel = FindByName("Ona")

C5_RemovedCousins ==
  /\ C5_OnceRemoved =>
       LET prefix == C5_Prefix(Min(Resolved.dA, Resolved.dB) - 1)
       IN IF Resolved.dA < Resolved.dB
          THEN C5_Uncle(analysis.title, prefix) /\ C5_Niece(analysis.reverseTitle, prefix)
          ELSE C5_Niece(analysis.title, prefix) /\ C5_Uncle(analysis.reverseTitle, prefix)
  /\ C5_DemoPair =>
       /\ Contains(analysis.title, "dvoyurodn") /\ Contains(analysis.title, "dyad")
       /\ Contains(reverseAnalysis.title, "dvoyurodn")
       /\ Contains(reverseAnalysis.title, "plemyann")

\* the demo pair is classified, at distances 2 and 3 from the common ancestor
C5_Witness ==
  /\ C5_DemoPair /\ C5_OnceRemoved
  /\ Resolved.dA = 2 /\ Resolved.dB = 3
  /\ analysis.title = "dvoyurodnyj dyadya"

(***************************************************************************)
(* C6: line of descent in the direct line.  Both roles carry "maternal     *)
(* line" when the descendant's parent on the reconstructed path (its       *)
(* second node) is female, "paternal line" when he is male, and nothing    *)
(* when the sex is unknown; the path runs from the descendant up parent    *)
(* edges to the ancestor.  For the single edge Mom (female) -> Child the   *)
(* role of Mom is a parent term with the maternal annotation.              *)
(***************************************************************************)
C6_IsPathUp(path, descendant, ancestor) ==
  /\ Len(path) >= 2 /\ path[1] = descendant /\ path[Len(path)] = ancestor
  /\ \A i \in 1..(Len(path) - 1) : path[i + 1] \in ParentSet(path[i])

C6_Carries(t, sex) ==
  CASE sex = "female" -> EndsWith(t, MaternalNote)
    [] sex = "male" -> EndsWith(t, PaternalNote)
    [] OTHER -> ~Contains(t, "linii")

C6_Annotated(descendant, ancestor) ==
  LET path == pathToAncestor(descendant, ancestor, CurrentParents)
  IN /\ C6_IsPathUp(path, descendant, ancestor)
     /\ C6_Carries(analysis.title, PersonOf(path[2]).sex)
     /\ C6_Carries(analysis.reverseTitle, PersonOf(path[2]).sex)

C6_MotherPair ==
  /\ Analysed /\ people = MotherTest.people /\ rels = MotherTest.rels
  /\ fromSel = FindByName("Mama") /\ toSel = FindByName("Rebyonok")

C6_LineAnnotation ==
  /\ (Analysed /\ BothPresent /\ fromSel \in AncestorSet(toSel) /\ Acyclic) =>
       C6_Annotated(toSel, fromSel)
  /\ (Analysed /\ BothPresent /\ toSel \in AncestorSet(fromSel) /\ Acyclic) =>
       C6_Annotated(fromSel, toSel)
  /\ C6_MotherPair =>
       /\ BareTerm(analysis.title) \in { "mat", "roditel" }
       /\ Contains(analysis.title, "materinskoj")

\* the self-test: the mother classified against her child
C6_Witness ==
  /\ C6_MotherPair
  /\ analysis.title = "mat (po materinskoj linii)"

(***************************************************************************)
(* C9: lookup miss.  As claimed: when either id is no person, and when     *)
(* both are persons without direct line or common ancestor, the result is  *)
(* the one "relation not found" value with empty evidence.                 *)
(***************************************************************************)
C9_NotFoundValue ==
  [title |-> "Svyaz ne najdena", details |-> <<>>, reverseTitle |-> "Svyaz ne najdena"]

C9_DashValue == [title |-> "--", details |-> <<>>, reverseTitle |-> "--"]

C9_Unrelated == BothPresent /\ NoDirectLine /\ CommonAncestors(fromSel, toSel) = {}

Words == normalizeText(text)

C10_Pronouns == { "ego", "ee" }

C10_ParentWords == { "mat", "mama", "otec", "papa" }

C10_GrandWords == { "ded", "deda", "dedushka", "dedushki", "babushka", "babushki" }

C10_Clause(i) ==
  /\ i + 2 <= Len(Words)
  /\ Words[i] = "po" /\ Words[i + 1] \in { "materinskoj", "otcovskoj" }
  /\ Words[i + 2] = "linii"

C10_SiblingAt(i) == i \in 1..Len(Words) /\ Words[i] \in { "sestra", "brat" }

C10_HasSibling == \E i \in 1..Len(Words) : C10_SiblingAt(i)

C10_FirstSibling == CHOOSE i \in 1..Len(Words) :
                      C10_SiblingAt(i) /\ \A j \in 1..(i - 1) : ~C10_SiblingAt(j)

\* fillers, then at most one rank word, fill the positions from a up to b
C10_Connector(a, b) ==
  \E r \in a..(b + 1) :
    /\ \A i \in a..(r - 1) : Words[i] \in { "eto", "est", "yavlyaetsya", "yavl" }
    /\ r = b + 1 \/ (r = b /\ Words[r] \in { "mladshaya", "starshaya", "mladshij", "starshij" })

C10_RelativeAt(i, words) ==
  i + 1 <= Len(Words) /\ Words[i] \in C10_Pronouns /\ Words[i + 1] \in words

C10_LeftWellFormed ==
  /\ C10_HasSibling
  /\ \/ C10_RelativeAt(1, C10_ParentWords) /\ C10_Connector(3, C10_FirstSibling - 1)
     \/ /\ C10_RelativeAt(1, C10_GrandWords) /\ C10_Clause(3)
        /\ C10_Connector(6, C10_FirstSibling - 1)

C10_Right == C10_FirstSibling + 1

\* the parse failed for want of a line clause: nothing synthesised, the
\* editor still empty, the counter where it was, the alert naming the clause
C10_LineMissing ==
  /\ ~parsed.ok /\ parsed.error = ExpectedLine
  /\ Contains(parsed.error, "po materinskoj linii")
  /\ Contains(parsed.error, "po otcovskoj linii")
  /\ parsed.people = <<>> /\ parsed.rels = <<>>
  /\ people = <<>> /\ rels = <<>> /\ _id = AfterMount
  /\ alerted = AlertText(ExpectedLine)

(***************************************************************************)
(* C10: grammar acceptance.  A grandfather/grandmother term in the term    *)
(* position of the left relative, or of the right relative after a         *)
(* well-formed left relative and connector, that is not immediately        *)
(* followed by the three tokens "po materinskoj|otcovskoj linii" makes     *)
(* parseAdvancedKinship fail with the error naming the missing line clause *)
(* and yields no graph.  A mother/father term never consumes a line        *)
(* clause: on the left the clause then stands where the sibling word is    *)
(* expected, on the right it is left over as a tail and the graph is that  *)
(* of the sentence without it.                                             *)
(***************************************************************************)
C10_GrandNeedsLine ==
  parsed # Null =>
    /\ (C10_RelativeAt(1, C10_GrandWords) /\ ~C10_Clause(3)) => C10_LineMissing
    /\ (C10_LeftWellFormed /\ C10_RelativeAt(C10_Right, C10_GrandWords)
          /\ ~C10_Clause(C10_Right + 2)) => C10_LineMissing
    /\ (C10_RelativeAt(1, C10_ParentWords) /\ C10_Clause(3)) =>
         ~parsed.ok /\ parsed.error = ExpectedSibling
    /\ \A i \in 1..Len(Words) :
         C10_RelativeAt(i, C10_ParentWords) =>
           ~parseRelativeSpec(Words, i).thrown /\ parseRelativeSpec(Words, i).next = i + 2
    /\ (C10_LeftWellFormed /\ C10_RelativeAt(C10_Right, C10_ParentWords)) =>
         LET short == parseAdvancedKinship(SubSeq(Words, 1, C10_Right + 1), AfterMount)
         IN parsed.ok /\ parsed.people = short.people /\ parsed.rels = short.rels

\* "his grandfather", with no line clause, as the left side of a sentence
\* whose right side is complete, has been parsed
C10_Witness ==
  /\ parsed # Null
  /\ C10_RelativeAt(1, C10_GrandWords) /\ ~C10_Clause(3)
  /\ Words[1] = "ego" /\ C10_HasSibling
  /\ C10_RelativeAt(C10_Right, C10_ParentWords)
  /\ C10_LineMissing

\* a right-hand grandparent term with an incomplete clause has been parsed
C10_WitnessRight ==
  /\ parsed # Null
  /\ C10_LeftWellFormed /\ C10_RelativeAt(C10_Right, C10_GrandWords)
  /\ IsWord(Words, C10_Right + 2, "po") /\ ~C10_Clause(C10_Right + 2)
  /\ C10_LineMissing

\* a right-hand mother/father term followed by a full clause has been parsed
C10_WitnessTail ==
  /\ parsed # Null /\ parsed.ok
  /\ C10_LeftWellFormed /\ C10_RelativeAt(C10_Right, C10_ParentWords)
  /\ C10_Clause(C10_Right + 2)

(***************************************************************************)
(* C11: a parse that aborts has no effects.  Whenever handleParse's call   *)
(* of parseAdvancedKinship throws (empty input, missing pronoun, missing   *)
(* or unknown relation term, missing line clause, missing sibling word),   *)
(* the counter _id has the value it had before the call, no person and no  *)
(* edge has been put into the editor, and no graph comes back.             *)
(***************************************************************************)
C11_Failures ==
  { EmptyString, ExpectedPronoun, ExpectedTerm, ExpectedLine, ExpectedSibling }
    \cup { UnknownTerm(w) : w \in { Words[i] : i \in 1..Len(Words) } }

C11_Aborted == parsed # Null /\ ~parsed.ok

C11_FailingParseHasNoEffects ==
  [][ C11_Aborted' =>
        /\ parsed'.error \in C11_Failures'
        /\ _id' = _id
        /\ people' = people /\ rels' = rels
        /\ parsed'.people = <<>> /\ parsed'.rels = <<>> ]_vars

\* a parse that read the whole left relative and its connector and then
\* aborted on the right relative's term
C11_Witness ==
  /\ C11_Aborted
  /\ C10_LeftWellFormed
  /\ parsed.error = UnknownTerm("tetya")
  /\ _id = AfterMount /\ people = <<>> /\ rels = <<>>

(***************************************************************************)
(* C12: parser/demo agreement.  The graph parseAdvancedKinship             *)
(* synthesises for the canonical phrase gives its "On" and "Ona" nodes the *)
(* same title and reverseTitle, in both argument orders, as buildDemo's    *)
(* graph gives its own; and for every parsed sentence with one side "his"  *)
(* and the other "her", the common ancestor findLCA resolves for (root of  *)
(* the left side, root of the right side) lies at the distances            *)
(* (len(left.steps) + 1, len(right.steps) + 1).                            *)
(***************************************************************************)
C12_IdOf(P, name) == P[CHOOSE i \in 1..Len(P) : P[i].name = name].id

C12_Roles(r) == <<r.title, r.reverseTitle>>

C12_RolesIn(g, a, b) ==
  C12_Roles(relationLabel(C12_IdOf(g.people, a), C12_IdOf(g.people, b), g.people, g.rels))

C12_Left == parseRelativeSpec(Words, 1)

C12_RightSpec ==
  parseRelativeSpec(Words, parseSiblingConnector(Words, C12_Left.next).next)

C12_RootName(spec) == IF spec.base = "he" THEN "On" ELSE "Ona"

C12_ParserAgreesWithDemo ==
  (parsed # Null /\ parsed.ok) =>
    /\ Words = canonical =>
         /\ C12_RolesIn(parsed, "On", "Ona") = C12_RolesIn(buildDemo, "On", "Ona")
         /\ C12_RolesIn(parsed, "Ona", "On") = C12_RolesIn(buildDemo, "Ona", "On")
    /\ C12_Left.base # C12_RightSpec.base =>
         LET lca == findLCA(C12_IdOf(parsed.people, C12_RootName(C12_Left)),
                            C12_IdOf(parsed.people, C12_RootName(C12_RightSpec)),
                            buildIndexes(parsed.people, parsed.rels).parentsOf)
         IN /\ lca # Null
            /\ lca.dA = Len(C12_Left.steps) + 1
            /\ lca.dB = Len(C12_RightSpec.steps) + 1

\* the canonical phrase has been parsed: he is her cousin-uncle, she his
\* cousin-niece, the common ancestor two hops from him and three from her
C12_Witness ==
  /\ parsed # Null /\ parsed.ok
  /\ Words = canonical
  /\ C12_RolesIn(parsed, "On", "Ona") = <<"dvoyurodnyj dyadya", "dvoyurodnaya plemyannica">>
  /\ Len(C12_Left.steps) = 1 /\ Len(C12_RightSpec.steps) = 2

\* a sentence with "her" on the left and a grandparent of "his" on the right
C12_WitnessSwapped ==
  /\ parsed # Null /\ parsed.ok
  /\ C12_Left.base = "she" /\ C12_RightSpec.base = "he"
  /\ Len(C12_Left.steps) = 2 /\ Len(C12_RightSpec.steps) = 2

(***************************************************************************)
(* C13: no dangling edges.  In every state of the editor reached from the  *)
(* empty editor by addPerson, picking parent and child from the current    *)
(* person list, addParentChild, removePerson, loadDemo and the import of a *)
(* well-formed file, every edge of rels has its parentId and its childId   *)
(* among the ids of the persons currently in people.                       *)
(***************************************************************************)
C13_NoDanglingEdges ==
  \A i \in 1..Len(rels) :
    rels[i].parentId \in Ids(people) /\ rels[i].childId \in Ids(people)

\* an edge between two persons that are no longer in the list, added from a
\* selection made before the list was replaced
C13_EdgeFromStaleSelection ==
  /\ parentSel \notin Ids(people) \cup {""}
  /\ childSel \notin Ids(people) \cup {""}
  /\ \E i \in 1..Len(rels) : rels[i].parentId = parentSel /\ rels[i].childId = childSel

(***************************************************************************)
(* C14: no self-loops and no duplicate edges.  The edge lists the          *)
(* program's own operations make -- rels under every sequence of           *)
(* addParentChild calls in the editor, buildDemo's list, and the list      *)
(* buildGraphFromSibling returns -- hold no edge with parentId = childId   *)
(* and no two edges with the same (parentId, childId); an addParentChild   *)
(* call whose selection is a self-loop or an edge already present leaves   *)
(* rels unchanged.                                                         *)
(***************************************************************************)
C14_Clean(E) ==
  /\ \A i \in 1..Len(E) : E[i].parentId # E[i].childId
  /\ \A i, j \in 1..Len(E) :
       (E[i].parentId = E[j].parentId /\ E[i].childId = E[j].childId) => i = j

C14_WouldViolate ==
  \/ parentSel = childSel
  \/ \E i \in 1..Len(rels) : rels[i].parentId = parentSel /\ rels[i].childId = childSel

C14_NoLoopsNoDuplicates ==
  /\ [](/\ C14_Clean(rels)
        /\ C14_Clean(buildDemo.rels)
        /\ (parsed # Null /\ parsed.ok) => C14_Clean(parsed.rels))
  /\ [][ (addParentChild /\ C14_WouldViolate) => rels' = rels ]_vars

\* addParentChild has put an edge of its own next to an imported one: the
\* child of the file's edge made parent of its parent
C14_Witness ==
  /\ Ids(people) = { "p1", "p2" }
  /\ \E i \in 1..Len(rels) : rels[i].parentId = "p1" /\ rels[i].childId = "p2"
  /\ \E i \in 1..Len(rels) : rels[i].parentId = "p2" /\ rels[i].childId = "p1"
  /\ parentSel = "p2" /\ childSel = "p1"

\* the phrase box has synthesised a graph whose two terminals are one node
C14_WitnessSynthesis ==
  /\ parsed # Null /\ parsed.ok
  /\ Words = <<"ee", "otec", "brat", "ee", "otec">>
  /\ Len(parsed.rels) = 3

(***************************************************************************)
(* C15: id uniqueness.  In every state of the editor, under any sequence   *)
(* of addPerson, removePerson, loadDemo, phrase synthesis and import of a  *)
(* file this application exported, no two persons of people have the same  *)
(* id.                                                                     *)
(***************************************************************************)
C15_UniqueIds ==
  \A i, j \in 1..Len(people) : people[i].id = people[j].id => i = j

\* genId hands out strictly increasing ids: no step lowers the counter
C15_CounterNeverDrops == [][_id' >= _id]_vars

(***************************************************************************)
(* C16: import validation.  importJSON replaces people and rels exactly    *)
(* when the file is a JSON record with a list under "people" and a list    *)
(* under "relations" or, failing that, under "rels", and then by what      *)
(* those lists hold; when a list is missing or is no list, when the        *)
(* document is no record, or when the text is no JSON, it raises an alert  *)
(* and leaves people and rels as they were.  The file exportJSON writes    *)
(* is one that importJSON accepts and that gives back the people and rels  *)
(* it was written from.                                                    *)
(***************************************************************************)
C16_HasList(f, key) ==
  /\ f.type = "object"
  /\ \E i \in 1..Len(f.members) : f.members[i].key = key /\ f.members[i].val.type = "array"

C16_List(f, key) ==
  f.members[CHOOSE i \in 1..Len(f.members) : f.members[i].key = key].val.items

C16_Text(o, key) ==
  o.members[CHOOSE i \in 1..Len(o.members) : o.members[i].key = key].val.string

C16_Noted(o) == \E i \in 1..Len(o.members) : o.members[i].key = "note"

C16_Accepted(f) ==
  C16_HasList(f, "people") /\ (C16_HasList(f, "relations") \/ C16_HasList(f, "rels"))

C16_EdgeKey(f) == IF C16_HasList(f, "relations") THEN "relations" ELSE "rels"

\* P holds the persons and E the edges written in the accepted file f
C16_Holds(f, P, E) ==
  LET persons == C16_List(f, "people")
      edges == C16_List(f, C16_EdgeKey(f))
  IN /\ Len(P) = Len(persons) /\ Len(E) = Len(edges)
     /\ \A i \in 1..Len(P) :
          /\ P[i].id = C16_Text(persons[i], "id")
          /\ P[i].name = C16_Text(persons[i], "name")
          /\ P[i].sex = C16_Text(persons[i], "sex")
          /\ P[i].note = IF C16_Noted(persons[i]) THEN C16_Text(persons[i], "note") ELSE ""
     /\ \A i \in 1..Len(E) :
          /\ E[i].parentId = C16_Text(edges[i], "parentId")
          /\ E[i].childId = C16_Text(edges[i], "childId")

C16_ImportValidates ==
  /\ [][ imported' # Null =>
           IF C16_Accepted(imported')
           THEN C16_Holds(imported', people', rels') /\ alerted' = ""
           ELSE people' = people /\ rels' = rels /\ alerted' # "" ]_vars
  /\ [][ exported' # exported =>
           C16_Accepted(exported') /\ C16_Holds(exported', people, rels) ]_vars
  /\ [][ (imported' # Null /\ imported' = exported) =>
           C16_Holds(exported, people', rels') ]_vars

\* the file exported from the demo graph, notes included, has been imported back
C16_Witness ==
  /\ imported # Null /\ imported = exported
  /\ alerted = ""
  /\ Len(people) = Len(buildDemo.people) /\ Len(rels) = Len(buildDemo.rels)
  /\ \E i \in 1..Len(people) : people[i].note # ""

\* a document without an edge list has been refused with persons in the editor
C16_WitnessRefused ==
  /\ imported # Null /\ ~C16_Accepted(imported)
  /\ alerted = NotAnExport
  /\ people # <<>>

(***************************************************************************)
(* C17: synthesised siblinghood.  For every sentence parseAdvancedKinship  *)
(* accepts, whatever its pronouns and relation terms, the two synthetic    *)
(* common ancestors are parents of the terminal node of the left chain and *)
(* of the terminal node of the right chain, and relationLabel(left         *)
(* terminal, right terminal) on the synthesised graph returns sibling      *)
(* terms.                                                                  *)
(***************************************************************************)
C17_Terminal(spec) == C12_IdOf(parsed.people, labelForPath(spec.base, spec.steps).label)

C17_SiblingTerms == { "brat", "sestra", "sibling" }

C17_ParentOf(parent, child) ==
  \E i \in 1..Len(parsed.rels) :
    parsed.rels[i].parentId = parent /\ parsed.rels[i].childId = child

C17_MadeSiblings ==
  LET leftNode == C17_Terminal(C12_Left)
      rightNode == C17_Terminal(C12_RightSpec)
      label == relationLabel(leftNode, rightNode, parsed.people, parsed.rels)
  IN /\ \A common \in { "Obshchij praded", "Obshchaya prababushka" } :
          /\ C17_ParentOf(C12_IdOf(parsed.people, common), leftNode)
          /\ C17_ParentOf(C12_IdOf(parsed.people, common), rightNode)
     /\ label.title \in C17_SiblingTerms
     /\ label.reverseTitle \in C17_SiblingTerms

C17_TerminalsAreSiblings == (parsed # Null /\ parsed.ok) => C17_MadeSiblings

\* the same, for the sentences whose two sides start from different pronouns
C17_SiblingsAcrossPronouns ==
  (parsed # Null /\ parsed.ok /\ C12_Left.base # C12_RightSpec.base) => C17_MadeSiblings

(***************************************************************************)
(* C18: the aunt/uncle family.  When there is no direct line and exactly   *)
(* one of the distances k, l of A and B to the resolved common ancestor is *)
(* 1, the person at distance 1 gets the senior term and the other the      *)
(* junior term, each in the form of the person's own sex, with degree =    *)
(* max(k, l) - 1: uncle/aunt and nephew/niece at degree 1, the cousin-     *)
(* prefixed grandparent and grandchild forms at degrees 2 and 3, the       *)
(* generic ancestor and descendant with a removal number from degree 4     *)
(* on; the evidence is the name of the common ancestor.                    *)
(***************************************************************************)
C18_BySex(sex, male, female, neutral) ==
  CASE sex = "male" -> male
    [] sex = "female" -> female
    [] OTHER -> neutral

C18_Senior(degree, sex) ==
  CASE degree = 1 -> C18_BySex(sex, "dyadya", "tyotya", "tyotya/dyadya")
    [] degree = 2 -> C18_BySex(sex, "dvoyurodnyj ded", "dvoyurodnaya babushka",
                               "dvoyurodnyj predok")
    [] degree = 3 -> C18_BySex(sex, "troyurodnyj ded", "troyurodnaya babushka",
                               "troyurodnyj predok")
    [] OTHER -> "predok (udalenie " \o ToString(degree - 1) \o ")"

C18_Junior(degree, sex) ==
  CASE degree = 1 -> C18_BySex(sex, "plemyannik", "plemyannica", "plemyannik/plemyannica")
    [] degree = 2 -> C18_BySex(sex, "dvoyurodnyj vnuk", "dvoyurodnaya vnuchka",
                               "dvoyurodnyj potomok")
    [] degree = 3 -> C18_BySex(sex, "troyurodnyj vnuk", "troyurodnaya vnuchka",
                               "troyurodnyj potomok")
    [] OTHER -> "potomok (udalenie " \o ToString(degree - 1) \o ")"

C18_Case ==
  /\ Analysed /\ BothPresent /\ NoDirectLine
  /\ LET lca == Resolved
     IN lca # Null /\ (lca.dA = 1) # (lca.dB = 1)
  /\ Acyclic

C18_AuntUncleFamily ==
  C18_Case =>
    LET lca == Resolved
        degree == Max(lca.dA, lca.dB) - 1
        A == PersonOf(fromSel)
        B == PersonOf(toSel)
    IN /\ IF lca.dA = 1
          THEN /\ analysis.title = C18_Senior(degree, A.sex)
               /\ analysis.reverseTitle = C18_Junior(degree, B.sex)
          ELSE /\ analysis.title = C18_Junior(degree, A.sex)
               /\ analysis.reverseTitle = C18_Senior(degree, B.sex)
       /\ analysis.details = << "Obshchij predok: " \o PersonOf(lca.id).name >>

\* a sibling of an ancestor MaxDepth generations up, compared with the descendant
C18_Witness ==
  /\ C18_Case
  /\ Resolved.dA = 1 /\ Resolved.dB = MaxDepth + 1
  /\ analysis.title = C18_Senior(MaxDepth, PersonOf(fromSel).sex)
  /\ StartsWith(analysis.title, "predok (udalenie ")

\* a great-aunt or great-uncle seen from the junior side
C18_WitnessGrand ==
  /\ C18_Case
  /\ Resolved.dA = 3 /\ Resolved.dB = 1
  /\ StartsWith(analysis.title, "dvoyurodn") /\ StartsWith(analysis.reverseTitle, "dvoyurodn")

(***************************************************************************)
(* C19: cousin degree and removal.  When there is no direct line and the   *)
(* resolved common ancestor is at distances k >= 2 and l >= 2, both roles  *)
(* carry the cousin-degree word of degree min(k, l) - 1, which is at least *)
(* 1, so the bare "rodstvenniki" is never produced.  With removal |k - l|  *)
(* = 0 both roles are the cousin term of that degree, in the forms of the  *)
(* two persons' sexes; with removal >= 2 the person nearer the common      *)
(* ancestor gets the uncle/aunt-shaped label and the other the niece/      *)
(* nephew-shaped one, both ending in the removal number.                   *)
(***************************************************************************)
C19_Case ==
  /\ Analysed /\ BothPresent /\ NoDirectLine
  /\ LET lca == Resolved
     IN lca # Null /\ lca.dA >= 2 /\ lca.dB >= 2
  /\ Acyclic

C19_Cousin(prefix, sex) ==
  C18_BySex(sex, prefix \o "yj brat", prefix \o "aya sestra", prefix \o "ye rodstvenniki")

C19_Removed(removal) == " (udalenie " \o ToString(removal) \o ")"

C19_CousinDegreeAndRemoval ==
  C19_Case =>
    LET k == Resolved.dA
        l == Resolved.dB
        degree == Min(k, l) - 1
        removal == IF k > l THEN k - l ELSE l - k
        prefix == C5_Prefix(degree)
        A == PersonOf(fromSel)
        B == PersonOf(toSel)
        nearer == IF k < l THEN analysis.title ELSE analysis.reverseTitle
        farther == IF k < l THEN analysis.reverseTitle ELSE analysis.title
    IN /\ degree >= 1
       /\ StartsWith(analysis.title, prefix) /\ StartsWith(analysis.reverseTitle, prefix)
       /\ analysis.title # "rodstvenniki" /\ analysis.reverseTitle # "rodstvenniki"
       /\ removal = 0 =>
            { analysis.title, analysis.reverseTitle }
              = { C19_Cousin(prefix, A.sex), C19_Cousin(prefix, B.sex) }
       /\ removal >= 2 =>
            /\ C5_Uncle(nearer, prefix) /\ EndsWith(nearer, C19_Removed(removal))
            /\ C5_Niece(farther, prefix) /\ EndsWith(farther, C19_Removed(removal))

\* second cousins twice removed: distances 2 and 4
C19_Witness ==
  /\ C19_Case
  /\ Resolved.dA = 2 /\ Resolved.dB = 4
  /\ EndsWith(analysis.title, "(udalenie 2)")

\* third cousins, at distances 3 and 3
C19_WitnessSameGeneration ==
  /\ C19_Case
  /\ Resolved.dA = 3 /\ Resolved.dB = 3
  /\ StartsWith(analysis.title, "troyurodn")

(***************************************************************************)
(* C20: termination on cyclic input.  On every drawn graph, rings of       *)
(* parents and a person who is their own parent included, a call of        *)
(* getAncestors, pathToAncestor, findLCA or relationLabel returns: every   *)
(* loop iteration lowers a measure that is never negative, each id enters  *)
(* a search's queue or layers at most once, and the depths of getAncestors *)
(* never have the start id as a key (they name exactly the other persons   *)
(* reached by parent hops).  What the searches return step by step is what *)
(* getAncestors, pathToAncestor and findLCA give as operators.             *)
(***************************************************************************)
C20_Universe == Nodes \cup (IF walk.op = "idle" THEN {} ELSE { walk.a, walk.b })

C20_Size == Cardinality(C20_Universe)

C20_Distinct(s) == \A i, j \in 1..Len(s) : s[i] = s[j] => i = j

\* the searches of the longest call, relationLabel on siblings: its two
\* isAncestorOf, findLCA's two getAncestors and the two paths to the parent
C20_Longest ==
  <<"getAncestors", "getAncestors", "getAncestors", "getAncestors",
    "pathToAncestor", "pathToAncestor">>

C20_MaxSearches == Len(C20_Longest)

C20_Weight == 3 * C20_Size + 3

\* what is left of the search in progress
C20_Inner ==
  IF walk.op = "between" THEN C20_Weight - (IF walk.scanned THEN 2 ELSE 1)
  ELSE IF walk.op = "getAncestors"
  THEN 2 * Cardinality(C20_Universe \ walk.sub.st.seen) + Len(walk.sub.st.queue)
  ELSE IF walk.op = "pathToAncestor"
  THEN 2 * Cardinality(C20_Universe \ walk.sub.st.seen) + Len(walk.sub.currentLayer)
         + C20_Size + 1
  ELSE C20_Size - Len(walk.sub.path)

C20_Measure ==
  IF walk.op = "idle" \/ walk.op = "returned" THEN 0
  ELSE (C20_MaxSearches + 1 - Len(walk.results)) * C20_Weight + C20_Inner

C20_Running == walk.op # "idle" /\ walk.op # "returned"

C20_Keys(obj) == { obj[i].key : i \in 1..Len(obj) }

C20_Safe ==
  /\ C20_Running => C20_Inner >= 0 /\ Len(walk.results) <= C20_MaxSearches
  /\ (walk.op # "idle" /\ walk.op \in {"getAncestors", "pathToAncestor"}) =>
       C20_Distinct(walk.sub.enqueued)
  /\ (walk.op # "idle" /\ walk.op = "getAncestors") => ~Has(walk.sub.st.depths, walk.sub.id)
  /\ (walk.op # "idle" /\ walk.op = "returned" /\ walk.fn = "getAncestors") =>
       C20_Keys(walk.results[1]) = AncestorSet(walk.a) \ {walk.a}
  /\ (walk.op = "returned" /\ walk.fn = "getAncestors") =>
       walk.results[1] = getAncestors(walk.a, walk.indexes.parentsOf)
  /\ (walk.op = "returned" /\ walk.fn = "pathToAncestor") =>
       walk.results[1] = pathToAncestor(walk.a, walk.b, walk.indexes.parentsOf)
  /\ (walk.op = "returned" /\ walk.fn = "findLCA") =>
       walk.lca = findLCA(walk.a, walk.b, walk.indexes.parentsOf)

C20_Terminates ==
  /\ []C20_Safe
  /\ [][C20_Running => C20_Measure' < C20_Measure]_vars
  /\ (walk.op # "idle") ~> (walk.op # "idle" /\ walk.op = "returned")

\* relationLabel has returned for two siblings whose parent is its own ancestor
C20_Witness ==
  /\ walk.op # "idle" /\ walk.op = "returned" /\ walk.fn = "relationLabel"
  /\ Len(walk.results) = C20_MaxSearches
  /\ ~Acyclic

\* getAncestors has returned for a person who is their own parent
C20_WitnessSelfLoop ==
  /\ walk.op # "idle" /\ walk.op = "returned" /\ walk.fn = "getAncestors"
  /\ \E i \in 1..Len(rels) : rels[i].parentId = walk.a /\ rels[i].childId = walk.a

(***************************************************************************)
(* C21: order independence.  The roles relationLabel gives for a pair of   *)
(* persons (title and reverseTitle, line annotation included) are the same *)
(* when the person list and the edge list are given in another order;      *)
(* here, the two lists taken backwards.                                    *)
(***************************************************************************)
C21_Roles(label) == <<label.title, label.reverseTitle>>

C21_Backwards == relationLabel(fromSel, toSel, Reverse(people), Reverse(rels))

C21_OrderIndependent ==
  (Analysed /\ BothPresent) => C21_Roles(C21_Backwards) = C21_Roles(analysis)

(***************************************************************************)
(* C22: self-comparison.  In an acyclic graph a person compared with       *)
(* themselves is not in their own ancestor map, so no direct line is       *)
(* reported: with at least one parent, the resolved common ancestor is a   *)
(* parent at distances 1 and 1 and both roles are the sibling term of the  *)
(* person's sex; with no parent, the result is "relation not found".       *)
(***************************************************************************)
C22_Case == Analysed /\ fromSel = toSel /\ fromSel \in Ids(people) /\ Acyclic

C22_SiblingTerm(sex) == C18_BySex(sex, "brat", "sestra", "sibling")

C22_NotFoundValue ==
  [title |-> "Svyaz ne najdena", details |-> <<>>, reverseTitle |-> "Svyaz ne najdena"]

C22_SelfComparison ==
  C22_Case =>
    /\ ~Has(getAncestors(fromSel, CurrentParents), fromSel)
    /\ ParentSet(fromSel) # {} =>
         /\ Resolved # Null /\ Resolved.id \in ParentSet(fromSel)
         /\ Resolved.dA = 1 /\ Resolved.dB = 1
         /\ analysis.title = C22_SiblingTerm(PersonOf(fromSel).sex)
         /\ analysis.reverseTitle = C22_SiblingTerm(PersonOf(fromSel).sex)
    /\ ParentSet(fromSel) = {} => analysis = C22_NotFoundValue

\* the son of the self-test compared with himself
C22_Witness ==
  /\ C22_Case /\ people = SiblingsTest.people
  /\ PersonOf(fromSel).name = "Syn" /\ analysis.title = "brat"

\* the father of the self-test, who has no parent, compared with himself
C22_WitnessNoParent ==
  /\ C22_Case /\ people = SiblingsTest.people
  /\ PersonOf(fromSel).name = "Otec" /\ analysis = C22_NotFoundValue

(***************************************************************************)
(* C23: applying a parsed phrase.  Once handleParse has run on a phrase    *)
(* that parseAdvancedKinship parses, the editor's people and rels are the  *)
(* synthesized collections, fromSel and toSel are the ids of the           *)
(* synthesized "On" and "Ona" persons where there are such, and no alert   *)
(* has been raised.                                                        *)
(***************************************************************************)
C23_Parsed == parsed # Null /\ parsed.ok

C23_Named(name) == { i \in 1..Len(parsed.people) : parsed.people[i].name = name }

C23_Selected(sel, name) ==
  C23_Named(name) # {} => \E i \in C23_Named(name) : sel = parsed.people[i].id

C23_ParsedPhraseIsApplied ==
  C23_Parsed =>
    /\ people = parsed.people /\ rels = parsed.rels
    /\ C23_Selected(fromSel, "On") /\ C23_Selected(toSel, "Ona")
    /\ alerted = ""

\* the same, but for the canonical phrase only: the demo graph takes no part
C23_DemoNotSubstituted ==
  (C23_Parsed /\ normalizeText(text) = canonical) =>
    people = parsed.people /\ rels = parsed.rels

(***************************************************************************)
(* C24: the synthesized graph is well formed.  For every accepted phrase,  *)
(* the graph buildGraphFromSibling returns has each name on exactly one    *)
(* person (a label met again reuses its person), pairwise distinct ids,    *)
(* edges between persons of the returned list only, and no person among    *)
(* their own ancestors.                                                    *)
(***************************************************************************)
C24_Case == parsed # Null /\ parsed.ok

C24_Count == Len(parsed.people)

C24_Ids == { parsed.people[i].id : i \in 1..C24_Count }

\* the parents, in the synthesized edge list, of the members of S
C24_Up(S) ==
  { parsed.rels[i].parentId :
      i \in { j \in 1..Len(parsed.rels) : parsed.rels[j].childId \in S } }

\* hopping up from S ends within n hops
RECURSIVE C24_EndsWithin(_, _)
C24_EndsWithin(S, n) ==
  IF S = {} THEN TRUE
  ELSE IF n = 0 THEN FALSE
  ELSE C24_EndsWithin(C24_Up(S), n - 1)

C24_WellFormed ==
  C24_Case =>
    /\ \A i, j \in 1..C24_Count :
         parsed.people[i].name = parsed.people[j].name => i = j
    /\ \A i, j \in 1..C24_Count :
         parsed.people[i].id = parsed.people[j].id => i = j
    /\ \A i \in 1..Len(parsed.rels) :
         parsed.rels[i].parentId \in C24_Ids /\ parsed.rels[i].childId \in C24_Ids
    /\ C24_EndsWithin(C24_Ids, C24_Count)

C24_HasName(name) == \E i \in 1..C24_Count : parsed.people[i].name = name

\* both relatives start from "ego": one person "On", and the father is met twice
C24_Witness ==
  /\ C24_Case
  /\ C24_HasName("On") /\ ~C24_HasName("Ona")
  /\ C24_HasName("Ego otec") /\ C24_HasName("Ego ded (po otcovskoj linii)")
  /\ C24_Count = 5

\* the two relatives start from different pronouns
C24_WitnessTwoRoots ==
  /\ C24_Case
  /\ C24_HasName("On") /\ C24_HasName("Ona")

====
